---- MODULE Spec2Model ----
(***************************************************************************)
(* Media scanning and reconciliation pipeline of samflix-backend:          *)
(* ScannerService (scanAll, scanMovieDirectory, scanSeriesDirectory,       *)
(* createScanningConflict, resolveConflict, cleanupOrphanedEntries) and    *)
(* the streaming scan handler of scanner.routes.ts.                        *)
(*                                                                         *)
(* Spec runs the operations one after the other (a scan, a conflict        *)
(* resolution, a folder change), as section 5 of the specification         *)
(* describes the engine; the filesystem and the metadata resolver change   *)
(* at any moment, also between two steps of a running scan.                *)
(***************************************************************************)
EXTENDS Integers, Sequences, FiniteSets, TLC

\* ------------------------------------------------------------------------
\* The world the scanner runs in: files, folders, the metadata catalog.
\* ------------------------------------------------------------------------

\* Bound on the number of environment changes (files appearing or vanishing,
\* resolver answers changing) in one behaviour.
MaxEnvChanges == 2

\* The same bound for the series library.
MaxSeriesEnvChanges == 1

\* The same bound for the runs checked under fairness.
MaxLiveEnvChanges == 1

\* The same bound for the library whose folder is registered with both types.
MaxRetypedEnvChanges == 1

\* The same bound for the library scanned by the scheduled trigger.
MaxScheduledEnvChanges == 1

MovieFolder == "/movies"
SeriesFolder == "/tv"
\* The MediaFolder row that registers the path of SeriesFolder with type
\* 'movies' (the handlers accept any type for any path).
RetypedFolder == "/tv as movies"

P1 == "/movies/Alien (1979).mkv"
P3 == "/movies/Alien Directors Cut (1979).mkv"
E1 == "/tv/Show/Show S01E01.mkv"
U1 == "/tv/Show/trailer.mkv"
U2 == "/tv/Show/zz sample.mkv"

MovieFiles == {P1, P3}
SeriesFiles == {E1, U1}
AllFiles == MovieFiles \cup SeriesFiles

\* The order in which readdir lists the files of a folder.
DirListing(dir) ==
  IF dir = MovieFolder THEN <<P1, P3>>
  ELSE IF dir = SeriesFolder THEN <<E1, U1, U2>>
  ELSE <<>>

NoParse == [parsed |-> FALSE]

\* parseMovie on the files of the model.  Titles are kept as lower-cased word
\* sequences, the form the case-insensitive `contains` of the store compares.
\* The names of the series files match only the bare-title rule: the whole
\* name is the title and the year is NaN (0 here, falsy as NaN is).
parseMovie(f) ==
  IF f = P1 THEN [parsed |-> TRUE, filePath |-> P1, fileName |-> "Alien (1979)",
                  title |-> <<"alien">>, year |-> 1979]
  ELSE IF f = P3 THEN [parsed |-> TRUE, filePath |-> P3,
                       fileName |-> "Alien Directors Cut (1979)",
                       title |-> <<"alien", "directors", "cut">>, year |-> 1979]
  ELSE IF f = E1 THEN [parsed |-> TRUE, filePath |-> E1, fileName |-> "Show S01E01",
                       title |-> <<"show", "s01e01">>, year |-> 0]
  ELSE IF f = U1 THEN [parsed |-> TRUE, filePath |-> U1, fileName |-> "trailer",
                       title |-> <<"trailer">>, year |-> 0]
  ELSE NoParse

\* parseEpisode on the files of the model: "trailer" matches no episode rule.
parseEpisode(f) ==
  IF f = E1 THEN [parsed |-> TRUE, filePath |-> E1, fileName |-> "Show S01E01",
                  seriesName |-> <<"show">>, seasonNumber |-> 1, episodeNumber |-> 1]
  ELSE NoParse

\* path.dirname and path.basename of the series files.
DirName(f) == IF f \in SeriesFiles \cup {U2} THEN "/tv/Show" ELSE MovieFolder
FolderBaseName(d) == IF d = "/tv/Show" THEN "Show" ELSE "movies"

\* External identifiers of the metadata resolver.
MovieX == 1
MovieY == 2
SeriesS == 11
SeriesT == 12
TmdbMovieIds == {MovieX, MovieY}
TmdbSeriesIds == {SeriesS, SeriesT}
\* An identifier the resolver does not know (its detail request fails).
UnknownId == 99
SelectableIds == TmdbMovieIds \cup TmdbSeriesIds \cup {UnknownId}

\* A detail request answered with the record of the other movie.
MovieDetailsOfOther(id) ==
  IF id = MovieX THEN [id |-> MovieY, title |-> <<"alien", "resurrection">>, year |-> 1997,
        release_date |-> "1997-11-26"]
  ELSE [id |-> MovieX, title |-> <<"alien">>, year |-> 1979,
        release_date |-> "1979-05-25"]

\* getMovieDetails / getTVDetails: the detail record of a known identifier.
MovieDetails(id) ==
  IF id = MovieX THEN [id |-> MovieX, title |-> <<"alien">>, year |-> 1979,
        release_date |-> "1979-05-25"]
  ELSE [id |-> MovieY, title |-> <<"alien", "resurrection">>, year |-> 1997,
        release_date |-> "1997-11-26"]

SeriesDetails(id) ==
  IF id = SeriesS THEN [id |-> SeriesS, name |-> <<"show">>]
  ELSE [id |-> SeriesT, name |-> <<"the", "show">>]

\* getEpisodeDetails: series S has episode 1x01 (external id 101); series T has
\* no such episode, the request ends in a 404.
EpisodeFound(seriesTmdbId, season, episode) ==
  seriesTmdbId = SeriesS /\ season = 1 /\ episode = 1
EpisodeDetails(seriesTmdbId, season, episode) ==
  [id |-> 101, season_number |-> season, episode_number |-> episode]

\* The answers searchMovie / searchTV may give for the one title whose answer
\* varies in the model.
MovieAnswers == {<<>>, <<MovieX>>, <<MovieX, MovieY>>}
SeriesAnswers == {<<>>, <<SeriesS>>, <<SeriesT>>, <<SeriesS, SeriesT>>}

VARIABLES
  fs,          \* the files that exist on disk
  mvAns,       \* searchMovie's answer for the title of P3
  tvAns,       \* searchTV's answer for "show"
  envLeft,     \* environment changes still allowed
  folders,     \* paths of the active MediaFolder rows
  movies,      \* Movie rows
  series,      \* TvSeries rows
  episodes,    \* Episode rows
  conflicts,   \* ScanningConflict rows
  pc,          \* position of the running scan ("idle" when none runs)
  cfg,         \* the ScannerConfig of the running scan
  dirIdx,      \* completedPaths of scanAll
  files,       \* files of the current directory still to process
  unparseable, \* unparseableFilesBySeries of scanSeriesDirectory
  missing,     \* the rows a cleanup loop still has to remove
  loopIdx,     \* index i of the running cleanup loop
  loopLen,     \* length of the list the running cleanup loop iterates
  summary,     \* cleanupResults
  progress,    \* percentages passed to the progress callback, in order
  lastDetails, \* details passed with the last progress callback
  stream,      \* the SSE response of scanHandler
  lastOp,      \* what the last step did (for stating the properties)
  quiet,       \* no fault, environment change or API call since the last scan began
  repeatRun,   \* the running scan began right after a completed, quiet scan
  writers,     \* callers that write episodes while other callers do (position, locals)
  baseName,    \* the base name handed to the parser, as a sequence of characters
  baseShape,   \* how that name was put together (for stating the properties)
  parseResult, \* what parseEpisode or parseMovie returned for it
  cacheSys,    \* a cached route: its data, its Redis entry, the requests in flight
  moved,       \* files found at a new path when the scan began (for stating the properties)
  deleted      \* rows the cleanup of the running scan has deleted (for stating the properties)

vars == <<fs, mvAns, tvAns, envLeft, folders, movies, series, episodes, conflicts,
          pc, cfg, dirIdx, files, unparseable, missing, loopIdx, loopLen, summary,
          progress, lastDetails, stream, lastOp, quiet, repeatRun, writers,
          baseName, baseShape, parseResult, cacheSys, moved, deleted>>

\* The state of the parts of the program that run beside the scan of one
\* caller.
parserVars == <<baseName, baseShape, parseResult>>
sideVars == <<writers, parserVars, cacheSys, moved, deleted>>

envVars == <<fs, mvAns, tvAns, envLeft>>
catalogVars == <<movies, series, episodes>>
scanVars == <<pc, cfg, dirIdx, files, unparseable, missing, loopIdx, loopLen,
              summary, progress, lastDetails, stream>>

\* ------------------------------------------------------------------------
\* Helpers.
\* ------------------------------------------------------------------------

\* The paths of the active folders of one type, as findMany lists them.
PathsOf(active, d) == IF d \in active THEN <<d>> ELSE <<>>

\* The elements of the sequence s that satisfy keep, in order.
RECURSIVE FilterSeq(_, _)
FilterSeq(s, keep) ==
  IF s = <<>> THEN <<>>
  ELSE IF Head(s) \in keep THEN <<Head(s)>> \o FilterSeq(Tail(s), keep)
  ELSE FilterSeq(Tail(s), keep)

\* The ids of a set of rows as a sequence, in increasing order (the order in
\* which findMany returns them).
RECURSIVE SortedIds(_)
SortedIds(ids) ==
  IF ids = {} THEN <<>>
  ELSE LET m == CHOOSE x \in ids : \A y \in ids : x <= y
       IN <<m>> \o SortedIds(ids \ {m})

\* A primary key no row of the table uses.
FreshId(rows) ==
  CHOOSE i \in 1..(Cardinality(rows) + 1) : \A r \in rows : r.id # i

\* `contains` of the store on lower-cased word sequences: needle occurs
\* in hay as a contiguous run.
Contains(hay, needle) ==
  \E k \in 0..(Len(hay) - Len(needle)) : SubSeq(hay, k + 1, k + Len(needle)) = needle

\* fs.existsSync.
isFileExistsOnDisk(disk, filePath) == filePath \in disk

\* getMediaFiles: the supported files below a directory that exist now.
getMediaFiles(disk, dir) == FilterSeq(DirListing(dir), disk)

\* tmdbService.searchMovie on a parsed title: the title "alien" has one match.
searchMovie(title, answerP3) ==
  IF title = <<"alien">> THEN <<MovieX>> ELSE answerP3

\* tmdbService.searchTV on a series name.
searchTV(name, answerShow) == answerShow

\* ------------------------------------------------------------------------
\* ScannerService: catalog operations.
\* ------------------------------------------------------------------------

\* isMovieInDatabase: by filePath, then by fileName, then by title (contains,
\* case-insensitive) and year when the parsed year is truthy.  A store error
\* inside the check is caught and answers false.
isMovieInDatabase(rows, p, storeError) ==
  IF storeError THEN FALSE
  ELSE \/ \E m \in rows : m.filePath = p.filePath
       \/ \E m \in rows : m.fileName = p.fileName
       \/ \E m \in rows : /\ Contains(m.title, p.title)
                          /\ (p.year # 0 => m.year = p.year)

\* An upsert that always takes the create path.
UpsertMovieAlwaysCreate(rows, d, p) ==
  rows \cup {[id |-> FreshId(rows), tmdbId |-> d.id, title |-> d.title,
               year |-> d.year, filePath |-> p.filePath, fileName |-> p.fileName,
               releaseDate |-> d.release_date]}

\* prisma.movie.upsert keyed on tmdbId: the update path rewrites the file
\* binding and the releaseDate of the existing row, the create path adds a
\* row.  year is getFullYear of the release_date of the details.
UpsertMovie(rows, d, p) ==
  IF \E m \in rows : m.tmdbId = d.id
  THEN {IF m.tmdbId = d.id
        THEN [m EXCEPT !.filePath = p.filePath, !.fileName = p.fileName,
                       !.releaseDate = d.release_date]
        ELSE m : m \in rows}
  ELSE rows \cup {[id |-> FreshId(rows), tmdbId |-> d.id, title |-> d.title,
                   year |-> d.year, filePath |-> p.filePath,
                   fileName |-> p.fileName, releaseDate |-> d.release_date]}

\* A conflict recorder that never looks for the row of the filePath.
createScanningConflictAlwaysCreate(rows, mediaType, fileName, filePath, possibleMatches) ==
  rows \cup {[id |-> FreshId(rows), fileName |-> fileName, filePath |-> filePath,
               mediaType |-> mediaType, possibleMatches |-> possibleMatches,
               resolved |-> FALSE, selectedId |-> 0]}

\* createScanningConflict: refresh the row that has this filePath (fileName,
\* possibleMatches, resolved := false) or create one.
createScanningConflict(rows, mediaType, fileName, filePath, possibleMatches) ==
  IF \E c \in rows : c.filePath = filePath
  THEN LET existing == CHOOSE c \in rows : c.filePath = filePath
       IN (rows \ {existing}) \cup
          {[existing EXCEPT !.fileName = fileName,
                            !.possibleMatches = possibleMatches,
                            !.resolved = FALSE]}
  ELSE rows \cup {[id |-> FreshId(rows), fileName |-> fileName,
                   filePath |-> filePath, mediaType |-> mediaType,
                   possibleMatches |-> possibleMatches, resolved |-> FALSE,
                   selectedId |-> 0]}

\* One iteration of the file loop of scanMovieDirectory on file f, without
\* an exception: the new Movie rows and ScanningConflict rows, and the branch
\* taken.
MovieFileResult(f, storeError) ==
  LET p == parseMovie(f)
      results == searchMovie(p.title, mvAns)
  IN IF ~p.parsed
     THEN [movies |-> movies, kind |-> "conflict",
           conflicts |-> createScanningConflict(conflicts, "movie", "unparsed", f, <<>>)]
     ELSE IF isMovieInDatabase(movies, p, storeError)
     THEN [movies |-> movies, conflicts |-> conflicts, kind |-> "skipped"]
     ELSE IF Len(results) = 0
     THEN [movies |-> movies, kind |-> "conflict",
           conflicts |-> createScanningConflict(conflicts, "movie", p.fileName,
                                                p.filePath, <<>>)]
     ELSE IF Len(results) > 1
     THEN [movies |-> movies, kind |-> "conflict",
           conflicts |-> createScanningConflict(conflicts, "movie", p.fileName,
                                                p.filePath, results)]
     ELSE [movies |-> UpsertMovie(movies, MovieDetails(results[1]), p),
           conflicts |-> conflicts, kind |-> "upserted"]

\* isEpisodeInDatabase: by filePath, then fileName, then series title
\* (contains) with season and episode number.
isEpisodeInDatabase(epRows, seriesRows, p, storeError) ==
  IF storeError THEN FALSE
  ELSE \/ \E e \in epRows : e.filePath = p.filePath
       \/ \E e \in epRows : e.fileName = p.fileName
       \/ \E e \in epRows :
            /\ \E s \in seriesRows : s.id = e.seriesId /\ Contains(s.title, p.seriesName)
            /\ e.seasonNumber = p.seasonNumber
            /\ e.episodeNumber = p.episodeNumber

\* prisma.tvSeries.upsert keyed on tmdbId with an empty update.
UpsertSeries(rows, d) ==
  IF \E s \in rows : s.tmdbId = d.id THEN rows
  ELSE rows \cup {[id |-> FreshId(rows), tmdbId |-> d.id, title |-> d.name]}

\* The row the series upsert returns.
SeriesRowOf(rows, d) == CHOOSE s \in rows : s.tmdbId = d.id

\* Episode create-or-update: findFirst on (tmdbId, seasonNumber,
\* episodeNumber), then update of the file binding, or create.
UpsertEpisode(rows, ed, p, seriesId) ==
  IF \E e \in rows : /\ e.tmdbId = ed.id
                     /\ e.seasonNumber = ed.season_number
                     /\ e.episodeNumber = ed.episode_number
  THEN LET existing == CHOOSE e \in rows : /\ e.tmdbId = ed.id
                                          /\ e.seasonNumber = ed.season_number
                                          /\ e.episodeNumber = ed.episode_number
       IN (rows \ {existing}) \cup
          {[existing EXCEPT !.filePath = p.filePath, !.fileName = p.fileName]}
  ELSE rows \cup {[id |-> FreshId(rows), tmdbId |-> ed.id,
                   seasonNumber |-> ed.season_number,
                   episodeNumber |-> ed.episode_number,
                   filePath |-> p.filePath, fileName |-> p.fileName,
                   seriesId |-> seriesId]}

\* A file loop that upserts the series before it looks the episode up.
EpisodeFileResultSeriesFirst(p, storeError, episodeWrite) ==
  LET results == searchTV(p.seriesName, tvAns)
      same == [series |-> series, episodes |-> episodes, conflicts |-> conflicts,
               kind |-> "skipped"]
      sd == SeriesDetails(results[1])
      newSeries == UpsertSeries(series, sd)
  IN IF isEpisodeInDatabase(episodes, series, p, storeError) THEN same
     ELSE IF Len(results) = 0 \/ Len(results) > 1
     THEN [same EXCEPT !.kind = "conflict", !.conflicts =
             createScanningConflict(conflicts, "series", p.fileName, p.filePath, results)]
     ELSE IF ~EpisodeFound(results[1], p.seasonNumber, p.episodeNumber)
     THEN [same EXCEPT !.kind = "conflict", !.series = newSeries, !.conflicts =
             createScanningConflict(conflicts, "series", p.fileName, p.filePath, <<>>)]
     ELSE [series |-> newSeries,
           episodes |-> IF episodeWrite
                        THEN UpsertEpisode(episodes,
                               EpisodeDetails(results[1], p.seasonNumber, p.episodeNumber),
                               p, SeriesRowOf(newSeries, sd).id)
                        ELSE episodes,
           conflicts |-> conflicts,
           kind |-> IF episodeWrite THEN "upserted" ELSE "error"]

\* One iteration of the file loop of scanSeriesDirectory on a parseable file,
\* without an exception other than the episode lookup's 404.  episodeWrite is
\* false when the store fails between the series upsert and the episode write.
EpisodeFileResult(p, storeError, episodeWrite) ==
  LET results == searchTV(p.seriesName, tvAns)
      same == [series |-> series, episodes |-> episodes, conflicts |-> conflicts,
               kind |-> "skipped"]
      sd == SeriesDetails(results[1])
      newSeries == UpsertSeries(series, sd)
  IN IF isEpisodeInDatabase(episodes, series, p, storeError) THEN same
     ELSE IF Len(results) = 0 \/ Len(results) > 1
     THEN [same EXCEPT !.kind = "conflict", !.conflicts =
             createScanningConflict(conflicts, "series", p.fileName, p.filePath, results)]
     ELSE IF ~EpisodeFound(results[1], p.seasonNumber, p.episodeNumber)
     THEN [same EXCEPT !.kind = "conflict", !.conflicts =
             createScanningConflict(conflicts, "series", p.fileName, p.filePath, <<>>)]
     ELSE [series |-> newSeries,
           episodes |-> IF episodeWrite
                        THEN UpsertEpisode(episodes,
                               EpisodeDetails(results[1], p.seasonNumber, p.episodeNumber),
                               p, SeriesRowOf(newSeries, sd).id)
                        ELSE episodes,
           conflicts |-> conflicts,
           kind |-> IF episodeWrite THEN "upserted" ELSE "error"]

\* What a step of the scan did to file f: the branch taken ("skipped",
\* "conflict", "upserted", "unparsed" or "error" for an exception), and the
\* state of the file's conflict row before the step.
PriorConflict(f) ==
  IF \E c \in conflicts : c.filePath = f /\ c.resolved THEN "resolved"
  ELSE IF \E c \in conflicts : c.filePath = f THEN "unresolved"
  ELSE "none"

FileOp(op, f, kind) == [op |-> op, file |-> f, kind |-> kind, prior |-> PriorConflict(f)]

\* ------------------------------------------------------------------------
\* Progress reporting and the SSE stream.
\* ------------------------------------------------------------------------

\* A folder percentage that counts the folder being started as completed
\* and scales to 100.
DirPercentOfHundred(completed, total) == ((completed + 1) * 100) \div total

\* Math.floor((completedPaths / totalPaths) * 70).
DirPercent(completed, total) == (completed * 70) \div total

\* base + Math.floor((i / n) * 5) of the three removal loops.
LoopPercent(base, i, n) == base + ((i * 5) \div n)

NoStream == [open |-> FALSE, terminals |-> 0, errors |-> 0, ended |-> FALSE]
NoSummary == [removedMovies |-> 0, removedEpisodes |-> 0, removedSeries |-> 0]
NoDeleted == [movies |-> 0, episodes |-> 0, series |-> 0]
NoCfg == [moviePaths |-> <<>>, seriesPaths |-> <<>>]
NoOp == [op |-> "none"]

TotalPaths == Len(cfg.moviePaths) + Len(cfg.seriesPaths)

\* A catch block that only logs: no event is written and the stream stays open.
ErrorEventOnlyLogged(st) == [st EXCEPT !.errors = @ + 1]

\* The catch block of scanHandler: the error event with complete = true, then
\* res.end().
ErrorEvent(st) ==
  [st EXCEPT !.terminals = @ + 1, !.errors = @ + 1, !.ended = TRUE]

\* The final message of scanHandler with complete = true, then res.end().
CompleteEvent(st) == [st EXCEPT !.terminals = @ + 1, !.ended = TRUE]

\* ------------------------------------------------------------------------
\* ParserService on base names.  A name is a sequence of characters; a rule
\* is the sequence of the quantified character classes of its regular
\* expression, matched from the first character to the last as the
\* backtracking matcher of JavaScript does: a lazy class tries the fewest
\* characters first, a greedy one the most.
\* ------------------------------------------------------------------------

Digits == <<"0", "1", "2", "3", "4", "5", "6", "7", "8", "9">>
DigitChars == {Digits[i] : i \in 1..Len(Digits)}
DigitVal(c) == (CHOOSE i \in 1..Len(Digits) : Digits[i] = c) - 1

\* A separator class without the dash: [\s._]
SepClassNoDash == {" ", "\n", ".", "_"}

\* [\s.\-_]
SepClass == {" ", "\n", ".", "-", "_"}
\* \s
SpaceClass == {" ", "\n"}
\* . (any character but a line break)
AnyChar ==
  ({"A", "B", "D", "E", "I", "M", "R", "S", "T", "V", "X", "a", "e", "h",
    "i", "l", "n", "o", "p", "r", "s", "t", "u", "v", "w", "x", "y"})
  \cup DigitChars \cup {"(", ")", "[", "]"} \cup SepClass

NaN == [nan |-> TRUE]
Num(n) == [nan |-> FALSE, n |-> n]

\* The value of a run of digits.
RECURSIVE DigitsValue(_, _)
DigitsValue(cs, acc) ==
  IF cs = <<>> \/ Head(cs) \notin DigitChars THEN acc
  ELSE DigitsValue(Tail(cs), 10 * acc + DigitVal(Head(cs)))

\* parseInt: leading white space is skipped, then an optional sign and the
\* longest run of digits are read; NaN when there is no digit.
RECURSIVE parseInt(_)
parseInt(cs) ==
  IF cs = <<>> THEN NaN
  ELSE IF Head(cs) \in SpaceClass THEN parseInt(Tail(cs))
  ELSE IF Head(cs) = "-"
  THEN IF Len(cs) > 1 /\ cs[2] \in DigitChars
       THEN Num(0 - DigitsValue(Tail(cs), 0)) ELSE NaN
  ELSE IF Head(cs) \in DigitChars THEN Num(DigitsValue(cs, 0))
  ELSE NaN

\* One quantified class: at least min and at most max characters of cls
\* (max < 0: no upper limit).
Q(cls, min, max, lazy) == [cls |-> cls, min |-> min, max |-> max, lazy |-> lazy]
One(cls) == Q(cls, 1, 1, FALSE)
LazyTitle == Q(AnyChar, 1, -1, TRUE)      \* (.+?)
Rest == Q(AnyChar, 0, -1, FALSE)          \* (.*)
SepPlus == Q(SepClass, 1, -1, FALSE)      \* [\s.\-_]+
SepStar == Q(SepClass, 0, -1, FALSE)      \* [\s.\-_]*
Digits12 == Q(DigitChars, 1, 2, FALSE)    \* (\d{1,2})
Digits23 == Q(DigitChars, 2, 3, FALSE)    \* (\d{2,3})

NoMatch == [ok |-> FALSE, counts |-> <<>>]

\* How many characters from pos on are in cls, up to cap.
RECURSIVE RunLen(_, _, _, _)
RunLen(s, pos, cls, cap) ==
  IF cap = 0 \/ pos > Len(s) THEN 0
  ELSE IF s[pos] \notin cls THEN 0
  ELSE 1 + RunLen(s, pos + 1, cls, cap - 1)

\* The match of the classes k.. of a rule on s from pos to the end of s: the
\* number of characters each class takes, in the order of preference of the
\* matcher.
RECURSIVE MatchFrom(_, _, _, _)
RECURSIVE TryCounts(_, _, _, _, _, _)
MatchFrom(pat, k, s, pos) ==
  IF k > Len(pat) THEN [ok |-> pos = Len(s) + 1, counts |-> <<>>]
  ELSE LET run == RunLen(s, pos, pat[k].cls,
                         IF pat[k].max < 0 THEN Len(s) ELSE pat[k].max)
       IN IF run < pat[k].min THEN NoMatch
          ELSE TryCounts(pat, k, s, pos, IF pat[k].lazy THEN pat[k].min ELSE run, run)

TryCounts(pat, k, s, pos, n, run) ==
  LET r == MatchFrom(pat, k + 1, s, pos + n)
  IN IF r.ok THEN [ok |-> TRUE, counts |-> <<n>> \o r.counts]
     ELSE IF pat[k].lazy
     THEN IF n < run THEN TryCounts(pat, k, s, pos, n + 1, run) ELSE NoMatch
     ELSE IF n > pat[k].min THEN TryCounts(pat, k, s, pos, n - 1, run) ELSE NoMatch

\* String.prototype.match with an anchored rule.
Match(pat, s) == MatchFrom(pat, 1, s, 1)

RECURSIVE SumTo(_, _)
SumTo(counts, k) == IF k = 0 THEN 0 ELSE counts[k] + SumTo(counts, k - 1)

\* The characters class k of the rule took.
Group(s, counts, k) == SubSeq(s, SumTo(counts, k - 1) + 1, SumTo(counts, k))

\* cleanTitle: dots and underscores become spaces, runs of white space one
\* space, and the ends are trimmed.
RECURSIVE CollapseSpaces(_, _)
CollapseSpaces(cs, afterSpace) ==
  IF cs = <<>> THEN <<>>
  ELSE IF Head(cs) \in {" ", ".", "_"}
  THEN IF afterSpace THEN CollapseSpaces(Tail(cs), TRUE)
       ELSE <<" ">> \o CollapseSpaces(Tail(cs), TRUE)
  ELSE <<Head(cs)>> \o CollapseSpaces(Tail(cs), FALSE)

\* A title cleaning that leaves the name as it is.
cleanTitleKeepsSeparators(title) == title

cleanTitle(title) ==
  LET c == CollapseSpaces(title, TRUE)
  IN IF c # <<>> /\ c[Len(c)] = " " THEN SubSeq(c, 1, Len(c) - 1) ELSE c

\* The list with the seasonless rules in front of the marker rules.
episodeRegexPatternsBareFirst ==
  << [elems |-> <<LazyTitle, SepPlus, Digits23, One({"v", "V"}),
                  Q(DigitChars, 0, -1, FALSE), SepPlus, Rest>>, groups |-> <<1, 3, 7>>],
     [elems |-> <<LazyTitle, SepPlus, Digits23, SepPlus, Rest>>, groups |-> <<1, 3, 5>>],
     [elems |-> <<LazyTitle, SepPlus, One({"S", "s"}), Digits12, SepPlus,
                  One({"E", "e"}), Digits12, SepStar, Rest>>, groups |-> <<1, 4, 7>>],
     [elems |-> <<LazyTitle, SepPlus, One({"S", "s"}), Digits12, One({"E", "e"}),
                  Digits12, SepPlus, Rest>>, groups |-> <<1, 4, 6>>],
     [elems |-> <<LazyTitle, SepPlus, One({"S", "s"}), Digits12, One({"E", "e"}),
                  Digits12, SepStar>>, groups |-> <<1, 4, 6>>],
     [elems |-> <<LazyTitle, SepPlus, Digits12, One({"x", "X"}), Digits12, SepPlus,
                  Rest>>, groups |-> <<1, 3, 5>>],
     [elems |-> <<LazyTitle, SepPlus, Digits12, One({"x", "X"}), Digits12, SepStar>>,
      groups |-> <<1, 3, 5>>],
     [elems |-> <<LazyTitle, SepPlus, One({"S", "s"}), Digits12, One({"E", "e"}),
                  Digits12>>, groups |-> <<1, 4, 6>>],
     [elems |-> <<LazyTitle, SepPlus, Digits12, One({"x", "X"}), Digits12>>,
      groups |-> <<1, 3, 5>> ] >>

\* episodeRegexPatterns, in the order of the list; groups names the classes
\* that are the first three capture groups of the rule.
episodeRegexPatterns ==
  << \* 1: Series S01 E02
     [elems |-> <<LazyTitle, SepPlus, One({"S", "s"}), Digits12, SepPlus,
                  One({"E", "e"}), Digits12, SepStar, Rest>>, groups |-> <<1, 4, 7>>],
     \* 2, 3: Series.S01E02.Title, Series.S01E02
     [elems |-> <<LazyTitle, SepPlus, One({"S", "s"}), Digits12, One({"E", "e"}),
                  Digits12, SepPlus, Rest>>, groups |-> <<1, 4, 6>>],
     [elems |-> <<LazyTitle, SepPlus, One({"S", "s"}), Digits12, One({"E", "e"}),
                  Digits12, SepStar>>, groups |-> <<1, 4, 6>>],
     \* 4, 5: Series.01x02.Title, Series.01x02
     [elems |-> <<LazyTitle, SepPlus, Digits12, One({"x", "X"}), Digits12, SepPlus,
                  Rest>>, groups |-> <<1, 3, 5>>],
     [elems |-> <<LazyTitle, SepPlus, Digits12, One({"x", "X"}), Digits12, SepStar>>,
      groups |-> <<1, 3, 5>>],
     \* 6: Series - 01v2 (...)
     [elems |-> <<LazyTitle, SepPlus, Digits23, One({"v", "V"}),
                  Q(DigitChars, 0, -1, FALSE), SepPlus, Rest>>, groups |-> <<1, 3, 7>>],
     \* 7: Series - 01 - Title
     [elems |-> <<LazyTitle, SepPlus, Digits23, SepPlus, Rest>>, groups |-> <<1, 3, 5>>],
     \* 8, 9: the fallbacks without a title after the marker
     [elems |-> <<LazyTitle, SepPlus, One({"S", "s"}), Digits12, One({"E", "e"}),
                  Digits12>>, groups |-> <<1, 4, 6>>],
     [elems |-> <<LazyTitle, SepPlus, Digits12, One({"x", "X"}), Digits12>>,
      groups |-> <<1, 3, 5>> ] >>

\* The rules of a list that match the name.
MatchingRules(patterns, name) ==
  {i \in 1..Len(patterns) : Match(patterns[i].elems, name).ok}

NotParsed == [parsed |-> FALSE, called |-> FALSE]
ParsedNull == [parsed |-> FALSE, called |-> TRUE]

\* parseEpisode on a base name: the first rule of the list that matches
\* gives seriesName, seasonNumber and episodeNumber from its first three
\* groups; null when none matches.  rule and matching record which rule
\* that was and which rules of the list match the name at all.
parseEpisodeBase(name) ==
  LET hits == MatchingRules(episodeRegexPatterns, name)
  IN IF hits = {} THEN ParsedNull
     ELSE LET i == CHOOSE x \in hits : \A y \in hits : x <= y
              rule == episodeRegexPatterns[i]
              counts == Match(rule.elems, name).counts
          IN [parsed |-> TRUE, called |-> TRUE, rule |-> i, matching |-> hits,
              seriesName |-> cleanTitle(Group(name, counts, rule.groups[1])),
              seasonNumber |-> parseInt(Group(name, counts, rule.groups[2])),
              episodeNumber |-> parseInt(Group(name, counts, rule.groups[3]))]

\* movieRegexPatterns, in the order of the list.  title and year name the
\* classes that are the first and the second capture group (year 0: the rule
\* has no second group).  What follows the year or the first tag in rules 1
\* and 3, \s*(?:\[(.*?)\]\s*)*(.*)$, matches every rest of a name; in rule 3
\* the second group is the tag of the last repetition (lastTag).
movieRegexPatterns ==
  << \* 1: Title (Year) [Attr1] [Attr2] ...
     [elems |-> <<LazyTitle, Q(SpaceClass, 0, -1, FALSE), One({"("}),
                  Q(DigitChars, 4, 4, FALSE), One({")"}), Rest>>,
      title |-> 1, year |-> 4, lastTag |-> FALSE],
     \* 2: Title Year Attr1 Attr2 ...
     [elems |-> <<LazyTitle, Q({" ", "\n", "."}, 1, -1, FALSE), Q(DigitChars, 4, 4, FALSE),
                  Q({" ", "\n", "."}, 1, -1, FALSE), Rest>>,
      title |-> 1, year |-> 3, lastTag |-> FALSE],
     \* 3: Title [Attr1] [Attr2] ...
     [elems |-> <<LazyTitle, Q(SpaceClass, 0, -1, FALSE), One({"["}),
                  Q(AnyChar, 0, -1, TRUE), One({"]"}), Rest>>,
      title |-> 1, year |-> 4, lastTag |-> TRUE],
     \* 4: Title (Attr1 Attr2 ...)
     [elems |-> <<LazyTitle, Q(SpaceClass, 0, -1, FALSE), One({"("}),
                  Q(AnyChar, 0, -1, TRUE), One({")"}), Q(SpaceClass, 0, -1, FALSE),
                  Rest>>,
      title |-> 1, year |-> 4, lastTag |-> FALSE],
     \* 5: Title only
     [elems |-> <<LazyTitle>>, title |-> 1, year |-> 0, lastTag |-> FALSE] >>

\* The tag of the last repetition of (?:\[(.*?)\]\s*) in the rest of a name,
\* or last when the rest does not begin with a tag.
RECURSIVE LastTag(_, _)
LastTag(rest, last) ==
  IF rest # <<>> /\ Head(rest) \in SpaceClass THEN LastTag(Tail(rest), last)
  ELSE IF rest # <<>> /\ Head(rest) = "[" /\ \E k \in 2..Len(rest) : rest[k] = "]"
  THEN LET close == CHOOSE k \in 2..Len(rest) :
                      rest[k] = "]" /\ \A j \in 2..(k - 1) : rest[j] # "]"
       IN LastTag(SubSeq(rest, close + 1, Len(rest)), SubSeq(rest, 2, close - 1))
  ELSE last

\* A parseMovie that stops before the rule of the bare title.
parseMovieBaseNoFallback(name) ==
  LET hits == MatchingRules(SubSeq(movieRegexPatterns, 1, 4), name)
  IN IF hits = {} THEN ParsedNull
     ELSE LET i == CHOOSE x \in hits : \A y \in hits : x <= y
              rule == movieRegexPatterns[i]
              counts == Match(rule.elems, name).counts
              second == IF rule.lastTag
                        THEN LastTag(Group(name, counts, Len(rule.elems)),
                                     Group(name, counts, rule.year))
                        ELSE Group(name, counts, rule.year)
          IN [parsed |-> TRUE, called |-> TRUE, rule |-> i, matching |-> hits,
              title |-> cleanTitle(Group(name, counts, rule.title)),
              year |-> parseInt(second)]

\* parseMovie on a base name: the first rule of the list that matches gives
\* the title (cleaned) and the year (parseInt of the second group).
parseMovieBase(name) ==
  LET hits == MatchingRules(movieRegexPatterns, name)
  IN IF hits = {} THEN ParsedNull
     ELSE LET i == CHOOSE x \in hits : \A y \in hits : x <= y
              rule == movieRegexPatterns[i]
              counts == Match(rule.elems, name).counts
              second == IF rule.year = 0 THEN <<>>
                        ELSE IF rule.lastTag
                        THEN LastTag(Group(name, counts, Len(rule.elems)),
                                     Group(name, counts, rule.year))
                        ELSE Group(name, counts, rule.year)
          IN [parsed |-> TRUE, called |-> TRUE, rule |-> i, matching |-> hits,
              title |-> cleanTitle(Group(name, counts, rule.title)),
              year |-> parseInt(second)]

NoShape == [form |-> "none"]

\* No cached route is modelled.
NoCache == [on |-> FALSE]

ParserIdle ==
  /\ baseName = <<>>
  /\ baseShape = NoShape
  /\ parseResult = NotParsed

\* ------------------------------------------------------------------------
\* Initial states: an empty catalog, no folder configured, nothing running.
\* ------------------------------------------------------------------------

ServiceIdle ==
  /\ folders = {}
  /\ movies = {}
  /\ series = {}
  /\ episodes = {}
  /\ conflicts = {}
  /\ pc = "idle"
  /\ cfg = NoCfg
  /\ dirIdx = 0
  /\ files = <<>>
  /\ unparseable = <<>>
  /\ missing = <<>>
  /\ loopIdx = 0
  /\ loopLen = 0
  /\ summary = NoSummary
  /\ progress = <<>>
  /\ lastDetails = NoSummary
  /\ stream = NoStream
  /\ lastOp = NoOp
  /\ quiet = FALSE
  /\ repeatRun = FALSE
  /\ moved = {}
  /\ deleted = NoDeleted

\* No caller runs beside the scan and the parser has not been called.
InitService ==
  /\ ServiceIdle
  /\ writers = <<>>
  /\ ParserIdle
  /\ cacheSys = NoCache

\* A library of movie files: any of them on disk, any answer of the resolver.
Init ==
  /\ fs \in SUBSET MovieFiles
  /\ mvAns \in MovieAnswers
  /\ tvAns = <<>>
  /\ envLeft = MaxEnvChanges
  /\ InitService

\* A library of series files.
InitSeries ==
  /\ fs \in SUBSET SeriesFiles
  /\ mvAns = <<>>
  /\ tvAns \in SeriesAnswers
  /\ envLeft = MaxSeriesEnvChanges
  /\ InitService

\* ------------------------------------------------------------------------
\* Environment: the disk and the metadata resolver.
\* ------------------------------------------------------------------------

FileVanishes(f) ==
  /\ UNCHANGED sideVars
  /\ pc # "done" /\ envLeft > 0 /\ f \in fs
  /\ fs' = fs \ {f}
  /\ envLeft' = envLeft - 1
  /\ quiet' = FALSE
  /\ UNCHANGED <<mvAns, tvAns, folders, catalogVars, conflicts, scanVars, lastOp, repeatRun>>

FileAppears(f) ==
  /\ UNCHANGED sideVars
  /\ pc # "done" /\ envLeft > 0 /\ f \notin fs
  /\ fs' = fs \cup {f}
  /\ envLeft' = envLeft - 1
  /\ quiet' = FALSE
  /\ UNCHANGED <<mvAns, tvAns, folders, catalogVars, conflicts, scanVars, lastOp, repeatRun>>

\* The resolver's search answers change between two operations.
MovieAnswerChanges ==
  /\ UNCHANGED sideVars
  /\ pc = "idle" /\ envLeft > 0
  /\ mvAns' \in MovieAnswers \ {mvAns}
  /\ envLeft' = envLeft - 1
  /\ quiet' = FALSE
  /\ UNCHANGED <<fs, tvAns, folders, catalogVars, conflicts, scanVars, lastOp, repeatRun>>

SeriesAnswerChanges ==
  /\ UNCHANGED sideVars
  /\ pc = "idle" /\ envLeft > 0
  /\ tvAns' \in SeriesAnswers \ {tvAns}
  /\ envLeft' = envLeft - 1
  /\ quiet' = FALSE
  /\ UNCHANGED <<fs, mvAns, folders, catalogVars, conflicts, scanVars, lastOp, repeatRun>>

\* ------------------------------------------------------------------------
\* Folder configuration (scanner.routes.ts).
\* ------------------------------------------------------------------------

\* addFolderHandler (or updateFolderHandler with active = true).
AddFolder(d) ==
  /\ UNCHANGED sideVars
  /\ pc = "idle" /\ d \notin folders
  /\ folders' = folders \cup {d}
  /\ quiet' = FALSE
  /\ UNCHANGED <<envVars, catalogVars, conflicts, scanVars, lastOp, repeatRun>>

\* deleteFolderHandler (or updateFolderHandler with active = false).
DeleteFolder(d) ==
  /\ UNCHANGED sideVars
  /\ pc = "idle" /\ d \in folders
  /\ folders' = folders \ {d}
  /\ quiet' = FALSE
  /\ UNCHANGED <<envVars, catalogVars, conflicts, scanVars, lastOp, repeatRun>>

\* ------------------------------------------------------------------------
\* scanHandler and scanAll.
\* ------------------------------------------------------------------------

\* The Movie rows whose file is no longer at the filePath of the row while a
\* file that the resolver identifies as that movie, and no other, is on disk
\* at another path below an active movie folder: the pairs of external id and
\* new path.
MovedFiles(rows, disk, active) ==
  {<<m.tmdbId, f>> : m \in {r \in rows : r.filePath \notin disk},
                     f \in {g \in disk \cap MovieFiles : MovieFolder \in active}}
  \cap {<<x, f>> \in TmdbMovieIds \X MovieFiles :
          searchMovie(parseMovie(f).title, mvAns) = <<x>>}

\* scanHandler up to the first progress report of scanAll.  When the folder
\* lookup throws, the catch block sends the error event and ends the stream.
ScanHandlerStart(lookupFails) ==
  /\ UNCHANGED <<writers, parserVars, cacheSys>>
  /\ moved' = IF lookupFails THEN {} ELSE MovedFiles(movies, fs, folders)
  /\ deleted' = NoDeleted
  /\ pc = "idle"
  /\ IF lookupFails
     THEN /\ stream' = ErrorEvent([NoStream EXCEPT !.open = TRUE])
          /\ pc' = "done"
          /\ cfg' = NoCfg
          /\ progress' = <<>>
          /\ quiet' = FALSE
          /\ repeatRun' = FALSE
          /\ lastOp' = [op |-> "lookupFailed"]
     ELSE /\ stream' = [NoStream EXCEPT !.open = TRUE]
          /\ pc' = "dirs"
          /\ cfg' = [moviePaths |-> PathsOf(folders, MovieFolder)
                                      \o (IF RetypedFolder \in folders
                                          THEN <<SeriesFolder>> ELSE <<>>),
                     seriesPaths |-> PathsOf(folders, SeriesFolder)]
          /\ progress' = <<0>>
          /\ quiet' = TRUE
          /\ repeatRun' = quiet
          /\ lastOp' = [op |-> "scanStart"]
  /\ dirIdx' = 0
  /\ files' = <<>>
  /\ unparseable' = <<>>
  /\ missing' = <<>>
  /\ loopIdx' = 0
  /\ loopLen' = 0
  /\ summary' = NoSummary
  /\ lastDetails' = NoSummary
  /\ UNCHANGED <<envVars, folders, catalogVars, conflicts>>

\* MediaScanSchedulerService.executeScheduledScan up to the first progress
\* report of scanAll: the same folder lookup and configuration as scanHandler,
\* no stream, and an early return when no folder is active.  A failing lookup
\* is caught and logged.
ExecuteScheduledScan(lookupFails) ==
  /\ UNCHANGED <<writers, parserVars, cacheSys>>
  /\ moved' = IF lookupFails THEN {} ELSE MovedFiles(movies, fs, folders)
  /\ deleted' = NoDeleted
  /\ pc = "idle"
  /\ LET config == [moviePaths |-> PathsOf(folders, MovieFolder)
                                    \o (IF RetypedFolder \in folders
                                        THEN <<SeriesFolder>> ELSE <<>>),
                    seriesPaths |-> PathsOf(folders, SeriesFolder)]
     IN IF lookupFails
        THEN /\ pc' = "done"
             /\ cfg' = NoCfg
             /\ progress' = <<>>
             /\ quiet' = FALSE
             /\ repeatRun' = FALSE
             /\ lastOp' = [op |-> "lookupFailed"]
        ELSE IF Len(config.moviePaths) = 0 /\ Len(config.seriesPaths) = 0
        THEN /\ pc' = "done"
             /\ cfg' = NoCfg
             /\ progress' = <<>>
             /\ quiet' = FALSE
             /\ repeatRun' = FALSE
             /\ lastOp' = [op |-> "scheduledSkipped"]
        ELSE /\ pc' = "dirs"
             /\ cfg' = config
             /\ progress' = <<0>>
             /\ quiet' = TRUE
             /\ repeatRun' = quiet
             /\ lastOp' = [op |-> "scanStart"]
  /\ stream' = NoStream
  /\ dirIdx' = 0
  /\ files' = <<>>
  /\ unparseable' = <<>>
  /\ missing' = <<>>
  /\ loopIdx' = 0
  /\ loopLen' = 0
  /\ summary' = NoSummary
  /\ lastDetails' = NoSummary
  /\ UNCHANGED <<envVars, folders, catalogVars, conflicts>>

\* An exception leaves scanAll: the handler's catch block answers (the
\* scheduled trigger, which has no stream, only logs).
ScanThrows(what) ==
  /\ UNCHANGED sideVars
  /\ pc' = "done"
  /\ stream' = IF stream.open THEN ErrorEvent(stream) ELSE stream
  /\ quiet' = FALSE
  /\ lastOp' = what
  /\ UNCHANGED <<cfg, dirIdx, files, unparseable, missing, loopIdx, loopLen, summary,
                 lastDetails>>

\* The loop over config.moviePaths: report, then getMediaFiles of the folder.
ScanMovieDirectory(readFails) ==
  /\ UNCHANGED sideVars
  /\ pc = "dirs" /\ dirIdx < Len(cfg.moviePaths)
  /\ progress' = Append(progress, DirPercent(dirIdx, TotalPaths))
  /\ IF readFails
     THEN ScanThrows([op |-> "readdirFailed", dir |-> cfg.moviePaths[dirIdx + 1]])
     ELSE LET found == getMediaFiles(fs, cfg.moviePaths[dirIdx + 1])
          IN /\ files' = found
             /\ pc' = IF found = <<>> THEN "dirs" ELSE "movieFiles"
             /\ dirIdx' = IF found = <<>> THEN dirIdx + 1 ELSE dirIdx
             /\ lastOp' = NoOp
             /\ UNCHANGED <<cfg, unparseable, missing, loopIdx, loopLen, summary,
                            lastDetails, stream, quiet>>
  /\ UNCHANGED <<envVars, folders, catalogVars, conflicts, repeatRun>>

\* One iteration of the file loop of scanMovieDirectory.  An exception of the
\* resolver or the store is caught by the loop and leaves the catalog as it was.
ScanMovieFile(fault, storeError) ==
  /\ UNCHANGED sideVars
  /\ pc = "movieFiles"
  /\ LET f == Head(files)
         r == IF fault THEN [movies |-> movies, conflicts |-> conflicts, kind |-> "error"]
              ELSE MovieFileResult(f, storeError)
     IN /\ movies' = r.movies
        /\ conflicts' = r.conflicts
        /\ lastOp' = FileOp("movieFile", f, r.kind)
  /\ files' = Tail(files)
  /\ pc' = IF Tail(files) = <<>> THEN "dirs" ELSE "movieFiles"
  /\ dirIdx' = IF Tail(files) = <<>> THEN dirIdx + 1 ELSE dirIdx
  /\ quiet' = (quiet /\ ~fault /\ ~storeError)
  /\ UNCHANGED <<envVars, folders, series, episodes, cfg, unparseable, missing, loopIdx,
                 loopLen, summary, progress, lastDetails, stream, repeatRun>>

\* The loop over config.seriesPaths: report, then getMediaFiles of the folder.
ScanSeriesDirectory(readFails) ==
  /\ UNCHANGED sideVars
  /\ pc = "dirs" /\ dirIdx >= Len(cfg.moviePaths) /\ dirIdx < TotalPaths
  /\ progress' = Append(progress, DirPercent(dirIdx, TotalPaths))
  /\ IF readFails
     THEN ScanThrows([op |-> "readdirFailed",
                      dir |-> cfg.seriesPaths[dirIdx - Len(cfg.moviePaths) + 1]])
     ELSE LET found == getMediaFiles(fs, cfg.seriesPaths[dirIdx - Len(cfg.moviePaths) + 1])
          IN /\ files' = found
             /\ unparseable' = <<>>
             /\ pc' = IF found = <<>> THEN "dirs" ELSE "seriesFiles"
             /\ dirIdx' = IF found = <<>> THEN dirIdx + 1 ELSE dirIdx
             /\ lastOp' = NoOp
             /\ UNCHANGED <<cfg, missing, loopIdx, loopLen, summary, lastDetails, stream,
                            quiet>>
  /\ UNCHANGED <<envVars, folders, catalogVars, conflicts, repeatRun>>

\* One iteration of the file loop of scanSeriesDirectory.  fault is "none",
\* "early" (an exception before any write) or "afterSeries" (the store fails
\* after the series upsert); the loop catches both.
ScanSeriesFile(fault, storeError) ==
  /\ UNCHANGED sideVars
  /\ pc = "seriesFiles"
  /\ fault = "episodeLookup" =>
       LET q == parseEpisode(Head(files))
       IN /\ q.parsed
          /\ ~isEpisodeInDatabase(episodes, series, q, storeError)
          /\ Len(searchTV(q.seriesName, tvAns)) = 1
  /\ LET f == Head(files)
         p == parseEpisode(f)
         same == [series |-> series, episodes |-> episodes, conflicts |-> conflicts,
                  kind |-> IF p.parsed THEN "error" ELSE "unparsed"]
         r == IF ~p.parsed \/ fault = "early" \/ fault = "episodeLookup" THEN same
              ELSE EpisodeFileResult(p, storeError, fault = "none")
         group == IF p.parsed THEN unparseable ELSE Append(unparseable, f)
         last == Tail(files) = <<>>
     IN /\ series' = r.series
        /\ episodes' = r.episodes
        /\ conflicts' = r.conflicts
        /\ unparseable' = group
        /\ pc' = IF ~last THEN "seriesFiles"
                 ELSE IF group # <<>> THEN "grouped" ELSE "dirs"
        /\ dirIdx' = IF last /\ group = <<>> THEN dirIdx + 1 ELSE dirIdx
        /\ lastOp' = FileOp("seriesFile", f, r.kind)
        /\ quiet' = (quiet /\ (fault = "none" \/ ~p.parsed) /\ ~(storeError /\ p.parsed))
  /\ files' = Tail(files)
  /\ UNCHANGED <<envVars, folders, movies, cfg, missing, loopIdx, loopLen, summary,
                 progress, lastDetails, stream, repeatRun>>

\* extractSeriesNameFromFolder and cleanSeriesNameForSearch on the folder
\* names of the model: "Show" is left as it is by both.
extractSeriesNameFromFolder(folderName) ==
  IF folderName = "Show" THEN <<"show">> ELSE <<"movies">>
cleanSeriesNameForSearch(seriesName) == seriesName

\* The name of a grouped conflict: `${seriesFolderName} (${files.length} episodes)`.
GroupName(folderName, count) ==
  IF folderName = "Show"
  THEN (IF count = 1 THEN "Show (1 episodes)"
        ELSE IF count = 2 THEN "Show (2 episodes)" ELSE "Show (n episodes)")
  ELSE "movies (n episodes)"

\* One iteration of the loop over unparseableFilesBySeries: a failing search
\* is caught (no candidates); an exception of createScanningConflict is not
\* caught and leaves scanSeriesDirectory and scanAll.
GroupedConflict(searchFails, storeFails) ==
  /\ UNCHANGED sideVars
  /\ pc = "grouped"
  /\ LET folder == DirName(Head(unparseable))
         group == SelectSeq(unparseable, LAMBDA f : DirName(f) = folder)
         rest == SelectSeq(unparseable, LAMBDA f : DirName(f) # folder)
         name == extractSeriesNameFromFolder(FolderBaseName(folder))
         first == IF searchFails THEN <<>> ELSE searchTV(name, tvAns)
         results == IF ~searchFails /\ Len(first) = 0
                       /\ cleanSeriesNameForSearch(name) # name
                    THEN searchTV(cleanSeriesNameForSearch(name), tvAns)
                    ELSE first
     IN IF storeFails
        THEN /\ ScanThrows(FileOp("groupedConflict", group[1], "error"))
             /\ UNCHANGED conflicts
        ELSE /\ conflicts' = createScanningConflict(conflicts, "series",
                               GroupName(FolderBaseName(folder), Len(group)),
                               group[1], results)
             /\ unparseable' = rest
             /\ pc' = IF rest = <<>> THEN "dirs" ELSE "grouped"
             /\ dirIdx' = IF rest = <<>> THEN dirIdx + 1 ELSE dirIdx
             /\ quiet' = (quiet /\ ~searchFails)
             /\ lastOp' = FileOp("groupedConflict", group[1], "conflict")
             /\ UNCHANGED <<cfg, files, missing, loopIdx, loopLen, summary, lastDetails,
                            stream>>
  /\ UNCHANGED <<envVars, folders, catalogVars, progress, repeatRun>>

\* ------------------------------------------------------------------------
\* cleanupOrphanedEntries.
\* ------------------------------------------------------------------------

\* checkForDeletedMovies / checkForDeletedEpisodes: the rows whose filePath
\* fails the existence check now.
MissingRows(rows, disk) ==
  {r \in rows : r.filePath # "" /\ ~isFileExistsOnDisk(disk, r.filePath)}

\* A query that returns the series of every removed or missing episode's
\* library without looking at its episodes: every TvSeries row.
EmptySeriesUnfiltered(seriesRows, epRows) == seriesRows

\* The TvSeries rows with no episode (episodes: { none: {} }).
EmptySeries(seriesRows, epRows) ==
  {s \in seriesRows : ~\E e \in epRows : e.seriesId = s.id}

\* A removal that trusts the snapshot and does not check the file again.
RemoveOutcomeNoRecheck(rows, id, disk) ==
  IF ~\E r \in rows : r.id = id THEN "gone" ELSE "deleted"

\* removeDeletedMovie / removeDeletedEpisode on the row with this id: "gone"
\* when no row has the id, "refused" when its file exists, else "deleted".
RemoveOutcome(rows, id, disk) ==
  IF ~\E r \in rows : r.id = id THEN "gone"
  ELSE LET r == CHOOSE x \in rows : x.id = id
       IN IF r.filePath # "" /\ isFileExistsOnDisk(disk, r.filePath)
          THEN "refused" ELSE "deleted"

RemoveRow(rows, id, disk) ==
  IF RemoveOutcome(rows, id, disk) = "deleted"
  THEN {r \in rows : r.id # id} ELSE rows

\* scanAll after the folder loops (progress 75) and the head of
\* cleanupOrphanedEntries (progress 80, checkForDeletedMovies).
StartCleanup ==
  /\ UNCHANGED sideVars
  /\ pc = "dirs" /\ dirIdx = TotalPaths
  /\ progress' = progress \o <<75, 80>>
  /\ missing' = SortedIds({m.id : m \in MissingRows(movies, fs)})
  /\ loopIdx' = 0
  /\ loopLen' = Cardinality(MissingRows(movies, fs))
  /\ pc' = "rmMovies"
  /\ lastOp' = [op |-> "snapshot", ids |-> {m.id : m \in MissingRows(movies, fs)}]
  /\ UNCHANGED <<envVars, folders, catalogVars, conflicts, cfg, dirIdx, files,
                 unparseable, summary, lastDetails, stream, quiet, repeatRun>>

\* One iteration of the loop over missingMovies; the exception of a refused
\* removal is caught by the loop.
RemoveMovie ==
  /\ pc = "rmMovies" /\ loopIdx < loopLen
  /\ UNCHANGED <<writers, parserVars, cacheSys, moved>>
  /\ deleted' = [deleted EXCEPT !.movies =
                   @ + Cardinality(movies \ RemoveRow(movies, missing[loopIdx + 1], fs))]
  /\ progress' = Append(progress, LoopPercent(80, loopIdx, loopLen))
  /\ movies' = RemoveRow(movies, missing[loopIdx + 1], fs)
  /\ lastOp' = [op |-> "removeDeletedMovie", id |-> missing[loopIdx + 1],
                outcome |-> RemoveOutcome(movies, missing[loopIdx + 1], fs)]
  /\ loopIdx' = loopIdx + 1
  /\ UNCHANGED <<envVars, folders, series, episodes, conflicts, pc, cfg, dirIdx, files,
                 unparseable, missing, loopLen, summary, lastDetails, stream, quiet,
                 repeatRun>>

\* Progress 85 and checkForDeletedEpisodes.
EpisodeSnapshot ==
  /\ UNCHANGED sideVars
  /\ pc = "rmMovies" /\ loopIdx = loopLen
  /\ summary' = [summary EXCEPT !.removedMovies = loopLen]
  /\ progress' = Append(progress, 85)
  /\ missing' = SortedIds({e.id : e \in MissingRows(episodes, fs)})
  /\ loopIdx' = 0
  /\ loopLen' = Cardinality(MissingRows(episodes, fs))
  /\ pc' = "rmEpisodes"
  /\ lastOp' = NoOp
  /\ UNCHANGED <<envVars, folders, catalogVars, conflicts, cfg, dirIdx, files,
                 unparseable, lastDetails, stream, quiet, repeatRun>>

\* One iteration of the loop over missingEpisodes.
RemoveEpisode ==
  /\ pc = "rmEpisodes" /\ loopIdx < loopLen
  /\ UNCHANGED <<writers, parserVars, cacheSys, moved>>
  /\ deleted' = [deleted EXCEPT !.episodes =
                   @ + Cardinality(episodes \ RemoveRow(episodes, missing[loopIdx + 1], fs))]
  /\ progress' = Append(progress, LoopPercent(85, loopIdx, loopLen))
  /\ episodes' = RemoveRow(episodes, missing[loopIdx + 1], fs)
  /\ lastOp' = [op |-> "removeDeletedEpisode", id |-> missing[loopIdx + 1],
                outcome |-> RemoveOutcome(episodes, missing[loopIdx + 1], fs)]
  /\ loopIdx' = loopIdx + 1
  /\ UNCHANGED <<envVars, folders, movies, series, conflicts, pc, cfg, dirIdx, files,
                 unparseable, missing, loopLen, summary, lastDetails, stream, quiet,
                 repeatRun>>

\* Progress 90 and the query for the series with no episode.
SeriesSnapshot ==
  /\ UNCHANGED sideVars
  /\ pc = "rmEpisodes" /\ loopIdx = loopLen
  /\ summary' = [summary EXCEPT !.removedEpisodes = loopLen]
  /\ progress' = Append(progress, 90)
  /\ missing' = SortedIds({s.id : s \in EmptySeries(series, episodes)})
  /\ loopIdx' = 0
  /\ loopLen' = Cardinality(EmptySeries(series, episodes))
  /\ pc' = "rmSeries"
  /\ lastOp' = NoOp
  /\ UNCHANGED <<envVars, folders, catalogVars, conflicts, cfg, dirIdx, files,
                 unparseable, lastDetails, stream, quiet, repeatRun>>

\* One iteration of the loop over emptySeries: prisma.tvSeries.delete.
RemoveSeries ==
  /\ pc = "rmSeries" /\ loopIdx < loopLen
  /\ UNCHANGED <<writers, parserVars, cacheSys, moved>>
  /\ deleted' = [deleted EXCEPT !.series =
                   @ + Cardinality({s \in series : s.id = missing[loopIdx + 1]})]
  /\ progress' = Append(progress, LoopPercent(90, loopIdx, loopLen))
  /\ series' = {s \in series : s.id # missing[loopIdx + 1]}
  /\ lastOp' = [op |-> "removeSeries", id |-> missing[loopIdx + 1],
                outcome |-> "deleted"]
  /\ loopIdx' = loopIdx + 1
  /\ UNCHANGED <<envVars, folders, movies, episodes, conflicts, pc, cfg, dirIdx, files,
                 unparseable, missing, loopLen, summary, lastDetails, stream, quiet,
                 repeatRun>>

\* A purge with no filter: deleteMany on every row.
deleteEveryConflict(rows) == {}

\* deleteResolvedConflicts: deleteMany where resolved = true.
deleteResolvedConflicts(rows) == {c \in rows : ~c.resolved}

\* The end of cleanupOrphanedEntries (progress 95), then in scanAll progress
\* 95, deleteResolvedConflicts and progress 100 with cleanupResults; the
\* handler then sends the final message and ends the stream.
FinishScan ==
  /\ UNCHANGED sideVars
  /\ pc = "rmSeries" /\ loopIdx = loopLen
  /\ summary' = [summary EXCEPT !.removedSeries = loopLen]
  /\ progress' = progress \o <<95, 95, 100>>
  /\ lastDetails' = summary'
  /\ conflicts' = deleteResolvedConflicts(conflicts)
  /\ stream' = IF stream.open THEN CompleteEvent(stream) ELSE stream
  /\ pc' = "done"
  /\ lastOp' = [op |-> "scanCompleted",
                purged |-> Cardinality(conflicts) - Cardinality(conflicts')]
  /\ UNCHANGED <<envVars, folders, catalogVars, cfg, dirIdx, files, unparseable,
                 missing, loopIdx, loopLen, quiet, repeatRun>>

\* The handler has returned; the next request finds the service idle.
HandlerReturn ==
  /\ UNCHANGED <<writers, parserVars, cacheSys>>
  /\ moved' = {}
  /\ deleted' = NoDeleted
  /\ pc = "done"
  /\ pc' = "idle"
  /\ cfg' = NoCfg
  /\ dirIdx' = 0
  /\ files' = <<>>
  /\ unparseable' = <<>>
  /\ missing' = <<>>
  /\ loopIdx' = 0
  /\ loopLen' = 0
  /\ summary' = NoSummary
  /\ progress' = <<>>
  /\ lastDetails' = NoSummary
  /\ stream' = NoStream
  /\ lastOp' = NoOp
  /\ repeatRun' = FALSE
  /\ UNCHANGED <<envVars, folders, catalogVars, conflicts, quiet>>

\* ------------------------------------------------------------------------
\* Conflict manager: resolveConflict, deleteConflict, deleteAllConflicts.
\* ------------------------------------------------------------------------

\* The ScanningConflict rows after the first update of resolveConflict.
MarkResolved(rows, c, selectedId) ==
  (rows \ {c}) \cup {[c EXCEPT !.resolved = TRUE, !.selectedId = selectedId]}

\* resolveConflict on the existing conflict c.  The conflict is updated
\* first; the detail requests fail for an identifier the resolver does not
\* know (or when fault is set), and the exception leaves the method.
ResolveResult(c, selectedId, fault) ==
  LET marked == [movies |-> movies, series |-> series, episodes |-> episodes,
                 conflicts |-> MarkResolved(conflicts, c, selectedId), threw |-> FALSE]
      pm == parseMovie(c.filePath)
      pe == parseEpisode(c.filePath)
      sd == SeriesDetails(selectedId)
      newSeries == UpsertSeries(series, sd)
  IN IF c.mediaType = "movie"
     THEN IF fault \/ selectedId \notin TmdbMovieIds
          THEN [marked EXCEPT !.threw = TRUE]
          ELSE IF ~pm.parsed THEN marked
          ELSE [marked EXCEPT !.movies = UpsertMovie(movies, MovieDetails(selectedId), pm)]
     ELSE IF fault \/ selectedId \notin TmdbSeriesIds
          THEN [marked EXCEPT !.threw = TRUE]
          ELSE IF ~pe.parsed THEN marked
          ELSE IF ~EpisodeFound(selectedId, pe.seasonNumber, pe.episodeNumber)
          THEN [marked EXCEPT !.threw = TRUE]
          ELSE [marked EXCEPT
                  !.series = newSeries,
                  !.episodes = UpsertEpisode(episodes,
                     EpisodeDetails(selectedId, pe.seasonNumber, pe.episodeNumber),
                     pe, SeriesRowOf(newSeries, sd).id)]

\* The identifiers a caller selects for a conflict of this media type: for a
\* movie a known one or one whose detail request fails; for a series S (whose
\* episode exists) or T (whose episode lookup ends in a 404).
Selectable(mediaType) ==
  IF mediaType = "movie" THEN TmdbMovieIds \cup {UnknownId}
  ELSE TmdbSeriesIds

ResolveConflict(c, selectedId, fault) ==
  /\ UNCHANGED sideVars
  /\ pc = "idle"
  /\ c \in conflicts
  /\ selectedId \in Selectable(c.mediaType)
  /\ LET r == ResolveResult(c, selectedId, fault)
     IN /\ movies' = r.movies
        /\ series' = r.series
        /\ episodes' = r.episodes
        /\ conflicts' = r.conflicts
        /\ lastOp' = [op |-> "resolveConflict", id |-> c.id, threw |-> r.threw]
  /\ quiet' = FALSE
  /\ UNCHANGED <<envVars, folders, scanVars, repeatRun>>

DeleteConflict(c) ==
  /\ UNCHANGED sideVars
  /\ pc = "idle"
  /\ c \in conflicts
  /\ conflicts' = conflicts \ {c}
  /\ lastOp' = NoOp
  /\ quiet' = FALSE
  /\ UNCHANGED <<envVars, folders, catalogVars, scanVars, repeatRun>>

\* deleteAllConflicts: deleteMany where resolved = false.
DeleteAllConflicts ==
  /\ UNCHANGED sideVars
  /\ pc = "idle"
  /\ \E c \in conflicts : ~c.resolved
  /\ conflicts' = {c \in conflicts : c.resolved}
  /\ lastOp' = NoOp
  /\ quiet' = FALSE
  /\ UNCHANGED <<envVars, folders, catalogVars, scanVars, repeatRun>>

\* A catch block that answers every exception alike.
HandlerStatusGeneric(message) == 500

\* The catch block of resolveConflictHandler and deleteConflictHandler: 404
\* for the message 'Conflict not found', 500 for anything else.
HandlerStatus(message) ==
  IF message = "Conflict not found" THEN 404 ELSE 500

\* prisma.scanningConflict.findUnique where id.
findUniqueConflict(rows, id) == {c \in rows : c.id = id}

\* POST /conflicts/:id/resolve with an id no row has.  Without a selectedId
\* the handler answers 400 and does not call the service; else
\* resolveConflict looks the row up and throws before any write.  storeFails:
\* the lookup itself throws.
ResolveUnknownConflict(id, selectedId, storeFails) ==
  /\ UNCHANGED sideVars
  /\ pc = "idle"
  /\ findUniqueConflict(conflicts, id) = {}
  /\ lastOp' = IF selectedId = 0
               THEN [op |-> "resolveUnknown", id |-> id, called |-> FALSE,
                     found |-> FALSE, status |-> 400]
               ELSE [op |-> "resolveUnknown", id |-> id, called |-> TRUE,
                     found |-> storeFails,
                     status |-> HandlerStatus(IF storeFails THEN "store"
                                              ELSE "Conflict not found")]
  /\ quiet' = FALSE
  /\ UNCHANGED <<envVars, folders, catalogVars, conflicts, scanVars, repeatRun>>

\* DELETE /conflicts/:id with an id no row has.
DeleteUnknownConflict(id, storeFails) ==
  /\ UNCHANGED sideVars
  /\ pc = "idle"
  /\ findUniqueConflict(conflicts, id) = {}
  /\ lastOp' = [op |-> "deleteUnknown", id |-> id, called |-> TRUE,
                found |-> storeFails,
                status |-> HandlerStatus(IF storeFails THEN "store"
                                         ELSE "Conflict not found")]
  /\ quiet' = FALSE
  /\ UNCHANGED <<envVars, folders, catalogVars, conflicts, scanVars, repeatRun>>

\* ------------------------------------------------------------------------
\* The specification.
\* ------------------------------------------------------------------------

\* The steps of a scan and of the conflict manager that both libraries share.
Service ==
  \/ \E d \in {MovieFolder, SeriesFolder} : AddFolder(d)
  \/ \E d \in {MovieFolder, SeriesFolder} : DeleteFolder(d)
  \/ \E lookupFails \in BOOLEAN : ScanHandlerStart(lookupFails)
  \/ \E readFails \in BOOLEAN : ScanMovieDirectory(readFails)
  \/ \E readFails \in BOOLEAN : ScanSeriesDirectory(readFails)
  \/ StartCleanup
  \/ EpisodeSnapshot
  \/ SeriesSnapshot
  \/ FinishScan
  \/ HandlerReturn
  \/ \E c \in conflicts, sel \in SelectableIds, fault \in BOOLEAN :
       ResolveConflict(c, sel, fault)
  \/ \E c \in conflicts : DeleteConflict(c)
  \/ DeleteAllConflicts

\* The movie library: only movie files ever exist, so the steps on episode
\* files and on Episode and TvSeries rows are never enabled.
Next ==
  \/ \E f \in MovieFiles : FileVanishes(f)
  \/ \E f \in MovieFiles : FileAppears(f)
  \/ MovieAnswerChanges
  \/ \E fault \in BOOLEAN, storeError \in BOOLEAN : ScanMovieFile(fault, storeError)
  \/ RemoveMovie
  \/ Service

Spec == Init /\ [][Next]_vars

\* The series library: only series files ever exist.
NextSeries ==
  \/ \E f \in SeriesFiles : FileVanishes(f)
  \/ \E f \in SeriesFiles : FileAppears(f)
  \/ SeriesAnswerChanges
  \/ \E fault \in {"none", "early", "episodeLookup", "afterSeries"},
        storeError \in BOOLEAN :
       ScanSeriesFile(fault, storeError)
  \/ \E searchFails \in BOOLEAN, storeFails \in BOOLEAN :
       GroupedConflict(searchFails, storeFails)
  \/ RemoveEpisode
  \/ RemoveSeries
  \/ Service

SpecSeries == InitSeries /\ [][NextSeries]_vars

\* The scan makes progress as long as it runs: every await of scanAll returns
\* or throws.  No fairness is assumed of the environment or of the callers.
ScanStep ==
  \/ \E readFails \in BOOLEAN : ScanMovieDirectory(readFails)
  \/ \E fault \in BOOLEAN, storeError \in BOOLEAN : ScanMovieFile(fault, storeError)
  \/ \E readFails \in BOOLEAN : ScanSeriesDirectory(readFails)
  \/ StartCleanup
  \/ RemoveMovie
  \/ EpisodeSnapshot
  \/ SeriesSnapshot
  \/ FinishScan

\* The movie library with its own bound on the changes of the environment
\* during the run.
InitLive ==
  /\ fs \in SUBSET MovieFiles
  /\ mvAns \in MovieAnswers
  /\ tvAns = <<>>
  /\ envLeft = MaxLiveEnvChanges
  /\ InitService

SpecLive == InitLive /\ [][Next]_vars /\ WF_vars(ScanStep)

\* The library of one episode file whose folder can be registered as a
\* series folder, as a movie folder, or as both.
InitRetyped ==
  /\ fs \in SUBSET {E1}
  /\ mvAns = <<>>
  /\ tvAns \in SeriesAnswers
  /\ envLeft = MaxRetypedEnvChanges
  /\ InitService

NextRetyped ==
  \/ FileVanishes(E1)
  \/ FileAppears(E1)
  \/ SeriesAnswerChanges
  \/ \E d \in {SeriesFolder, RetypedFolder} : AddFolder(d)
  \/ \E d \in {SeriesFolder, RetypedFolder} : DeleteFolder(d)
  \/ \E lookupFails \in BOOLEAN : ScanHandlerStart(lookupFails)
  \/ \E readFails \in BOOLEAN : ScanMovieDirectory(readFails)
  \/ \E fault \in BOOLEAN, storeError \in BOOLEAN : ScanMovieFile(fault, storeError)
  \/ \E readFails \in BOOLEAN : ScanSeriesDirectory(readFails)
  \/ \E fault \in {"none", "early", "afterSeries"}, storeError \in BOOLEAN :
       ScanSeriesFile(fault, storeError)
  \/ StartCleanup
  \/ RemoveMovie
  \/ EpisodeSnapshot
  \/ RemoveEpisode
  \/ SeriesSnapshot
  \/ RemoveSeries
  \/ FinishScan
  \/ HandlerReturn
  \/ \E c \in conflicts, sel \in SelectableIds, fault \in BOOLEAN :
       ResolveConflict(c, sel, fault)
  \/ \E c \in conflicts : DeleteConflict(c)
  \/ DeleteAllConflicts

SpecRetyped == InitRetyped /\ [][NextRetyped]_vars

\* The movie library with both triggers: the streaming endpoint and the
\* scheduled scan.
InitScheduled ==
  /\ fs \in SUBSET MovieFiles
  /\ mvAns \in MovieAnswers
  /\ tvAns = <<>>
  /\ envLeft = MaxScheduledEnvChanges
  /\ InitService

NextScheduled ==
  \/ \E lookupFails \in BOOLEAN : ExecuteScheduledScan(lookupFails)
  \/ Next

SpecScheduled == InitScheduled /\ [][NextScheduled]_vars

\* The movie library whose callers also name conflicts that do not exist.
MaxManagerEnvChanges == 1

InitManager ==
  /\ fs \in SUBSET MovieFiles
  /\ mvAns \in MovieAnswers
  /\ tvAns = <<>>
  /\ envLeft = MaxManagerEnvChanges
  /\ InitService

NextManager ==
  \/ \E id \in 1..(Cardinality(conflicts) + 1), sel \in {0} \cup TmdbMovieIds,
        storeFails \in BOOLEAN : ResolveUnknownConflict(id, sel, storeFails)
  \/ \E id \in 1..(Cardinality(conflicts) + 1), storeFails \in BOOLEAN :
       DeleteUnknownConflict(id, storeFails)
  \/ Next

SpecManager == InitManager /\ [][NextManager]_vars

\* ------------------------------------------------------------------------
\* Concurrent callers.  Every await of a request handler is a point where the
\* event loop runs another caller: two scans (POST /scan twice, or the
\* scheduled scan beside it) and one resolveConflict work on the episode
\* file E1 of one series folder.
\* ------------------------------------------------------------------------

\* How often the disk or the resolver changes while the callers run.
MaxConcEnvChanges == 2

ScanWriters == {"scanA", "scanB"}
Writers == ScanWriters \cup {"resolve"}

\* A caller at rest: nothing selected, no series row, no episode found, no
\* snapshot.
IdleWriter == [at |-> "idle", tmdb |-> 0, seriesId |-> 0, found |-> 0, snapshot |-> <<>>]

\* The Episode rows with the key of findFirst.
EpisodesWithKey(rows, ed) ==
  {e \in rows : /\ e.tmdbId = ed.id
                /\ e.seasonNumber = ed.season_number
                /\ e.episodeNumber = ed.episode_number}

\* An insert that the store accepts whatever rows exist.
createEpisodeUnconstrained(epRows, seriesRows, ed, p, seriesId) ==
  [rows |-> epRows \cup {[id |-> FreshId(epRows), tmdbId |-> ed.id,
                          seasonNumber |-> ed.season_number,
                          episodeNumber |-> ed.episode_number,
                          filePath |-> p.filePath, fileName |-> p.fileName,
                          seriesId |-> seriesId]},
   outcome |-> "created"]

\* prisma.episode.create under the constraints of the Episode table: the key
\* (tmdbId, seasonNumber, episodeNumber) is unique and seriesId references a
\* TvSeries row.  A violation throws and inserts nothing.
createEpisode(epRows, seriesRows, ed, p, seriesId) ==
  IF EpisodesWithKey(epRows, ed) # {}
  THEN [rows |-> epRows, outcome |-> "duplicateRefused"]
  ELSE IF ~\E s \in seriesRows : s.id = seriesId
  THEN [rows |-> epRows, outcome |-> "noSeriesRefused"]
  ELSE [rows |-> epRows \cup {[id |-> FreshId(epRows), tmdbId |-> ed.id,
                               seasonNumber |-> ed.season_number,
                               episodeNumber |-> ed.episode_number,
                               filePath |-> p.filePath, fileName |-> p.fileName,
                               seriesId |-> seriesId]},
        outcome |-> "created"]

\* prisma.episode.update of the file binding where id = found: it throws
\* when the row is gone.
updateEpisode(epRows, found, p) ==
  IF ~\E e \in epRows : e.id = found
  THEN [rows |-> epRows, outcome |-> "rowGone"]
  ELSE [rows |-> {IF e.id = found
                  THEN [e EXCEPT !.filePath = p.filePath, !.fileName = p.fileName]
                  ELSE e : e \in epRows},
        outcome |-> "updated"]

\* prisma.tvSeries.delete where id: it throws when the row is gone; when
\* Episode rows reference the row, the relation either refuses the delete or
\* deletes them with it.
deleteSeries(seriesRows, epRows, id, cascade) ==
  IF ~\E s \in seriesRows : s.id = id
  THEN [series |-> seriesRows, episodes |-> epRows, outcome |-> "rowGone"]
  ELSE IF (\E e \in epRows : e.seriesId = id) /\ ~cascade
  THEN [series |-> seriesRows, episodes |-> epRows, outcome |-> "refused"]
  ELSE [series |-> {s \in seriesRows : s.id # id},
        episodes |-> {e \in epRows : e.seriesId # id},
        outcome |-> "deleted"]

ConcFrame ==
  UNCHANGED <<envVars, folders, movies, scanVars, quiet, repeatRun, parserVars,
              cacheSys, moved, deleted>>

\* scanSeriesDirectory reads the folder: the file loop runs when E1 is
\* listed, else the scan goes on to the cleanup.
ConcScanBegin(w) ==
  /\ w \in ScanWriters /\ writers[w].at = "idle"
  /\ SeriesFolder \in folders
  /\ writers' = [writers EXCEPT ![w].at =
                   IF E1 \in fs THEN "check" ELSE "snapshot"]
  /\ lastOp' = [op |-> "concBegin", writer |-> w]
  /\ UNCHANGED <<series, episodes, conflicts>>
  /\ ConcFrame

\* The file loop up to the series upsert: isEpisodeInDatabase, searchTV,
\* getTVDetails, getEpisodeDetails; a conflict when the search is not
\* decisive or the episode is unknown.
ConcScanCheck(w) ==
  /\ w \in ScanWriters /\ writers[w].at = "check"
  /\ LET p == parseEpisode(E1)
         results == searchTV(p.seriesName, tvAns)
     IN IF isEpisodeInDatabase(episodes, series, p, FALSE)
        THEN /\ writers' = [writers EXCEPT ![w].at = "snapshot"]
             /\ conflicts' = conflicts
        ELSE IF Len(results) # 1
        THEN /\ writers' = [writers EXCEPT ![w].at = "snapshot"]
             /\ conflicts' = createScanningConflict(conflicts, "series", p.fileName,
                                                    p.filePath, results)
        ELSE IF ~EpisodeFound(results[1], p.seasonNumber, p.episodeNumber)
        THEN /\ writers' = [writers EXCEPT ![w].at = "snapshot"]
             /\ conflicts' = createScanningConflict(conflicts, "series", p.fileName,
                                                    p.filePath, <<>>)
        ELSE /\ writers' = [writers EXCEPT ![w].at = "upsertSeries",
                                           ![w].tmdb = results[1]]
             /\ conflicts' = conflicts
  /\ lastOp' = [op |-> "concCheck", writer |-> w]
  /\ UNCHANGED <<series, episodes>>
  /\ ConcFrame

\* resolveConflict up to the series upsert: the conflict is found and marked
\* resolved; getTVDetails, parseEpisode and getEpisodeDetails follow, and the
\* 404 of an unknown episode leaves the method.
ConcResolveBegin(c, selectedId) ==
  /\ writers["resolve"].at = "idle"
  /\ c \in conflicts /\ c.mediaType = "series"
  /\ selectedId \in TmdbSeriesIds
  /\ conflicts' = MarkResolved(conflicts, c, selectedId)
  /\ LET pe == parseEpisode(c.filePath)
     IN writers' = [writers EXCEPT !["resolve"].at =
                      IF pe.parsed /\ EpisodeFound(selectedId, pe.seasonNumber,
                                                   pe.episodeNumber)
                      THEN "upsertSeries" ELSE "idle",
                    !["resolve"].tmdb = selectedId]
  /\ lastOp' = [op |-> "concResolve", writer |-> "resolve"]
  /\ UNCHANGED <<series, episodes>>
  /\ ConcFrame

\* prisma.tvSeries.upsert; the caller keeps the id of the row.
ConcUpsertSeries(w) ==
  /\ writers[w].at = "upsertSeries"
  /\ LET sd == SeriesDetails(writers[w].tmdb)
         newSeries == UpsertSeries(series, sd)
     IN /\ series' = newSeries
        /\ writers' = [writers EXCEPT ![w].at = "find",
                                      ![w].seriesId = SeriesRowOf(newSeries, sd).id]
  /\ lastOp' = [op |-> "concUpsertSeries", writer |-> w]
  /\ UNCHANGED <<episodes, conflicts>>
  /\ ConcFrame

\* prisma.episode.findFirst on (tmdbId, seasonNumber, episodeNumber).
ConcFindEpisode(w) ==
  /\ writers[w].at = "find"
  /\ LET p == parseEpisode(E1)
         ed == EpisodeDetails(writers[w].tmdb, p.seasonNumber, p.episodeNumber)
         hits == EpisodesWithKey(episodes, ed)
     IN writers' = [writers EXCEPT ![w].at = "write",
                      ![w].found = IF hits = {} THEN 0
                                   ELSE (CHOOSE e \in hits :
                                           \A x \in hits : e.id <= x.id).id]
  /\ lastOp' = [op |-> "concFind", writer |-> w]
  /\ UNCHANGED <<series, episodes, conflicts>>
  /\ ConcFrame

\* The update or the create that follows findFirst.  The file loop catches
\* what the store throws and the scan goes on to the cleanup; resolveConflict
\* rethrows or returns.
ConcWriteEpisode(w) ==
  /\ writers[w].at = "write"
  /\ LET p == parseEpisode(E1)
         ed == EpisodeDetails(writers[w].tmdb, p.seasonNumber, p.episodeNumber)
         r == IF writers[w].found # 0
              THEN updateEpisode(episodes, writers[w].found, p)
              ELSE createEpisode(episodes, series, ed, p, writers[w].seriesId)
     IN /\ episodes' = r.rows
        /\ lastOp' = [op |-> "concWrite", writer |-> w, outcome |-> r.outcome]
  /\ writers' = [writers EXCEPT ![w] =
                   IF w \in ScanWriters
                   THEN [IdleWriter EXCEPT !.at = "snapshot"]
                   ELSE IdleWriter]
  /\ UNCHANGED <<series, conflicts>>
  /\ ConcFrame

\* cleanupOrphanedEntries: the query for the episodes whose file is missing.
ConcEpisodeSnapshot(w) ==
  /\ writers[w].at = "snapshot"
  /\ writers' = [writers EXCEPT ![w].at = "rmEpisodes",
                   ![w].snapshot = SortedIds({e.id : e \in MissingRows(episodes, fs)})]
  /\ lastOp' = [op |-> "concSnapshot", writer |-> w]
  /\ UNCHANGED <<series, episodes, conflicts>>
  /\ ConcFrame

\* removeDeletedEpisode on the next id of the snapshot, up to the delete:
\* findUnique and fs.existsSync on the filePath of the row.  It throws when
\* the row is gone or the file exists; the loop catches that and goes on.
ConcRemoveCheck(w) ==
  /\ writers[w].at = "rmEpisodes" /\ writers[w].snapshot # <<>>
  /\ writers' = [writers EXCEPT
                   ![w].snapshot = Tail(@),
                   ![w].found = IF RemoveOutcome(episodes, Head(writers[w].snapshot), fs)
                                   = "deleted"
                                THEN Head(writers[w].snapshot) ELSE 0,
                   ![w].at = IF RemoveOutcome(episodes, Head(writers[w].snapshot), fs)
                                = "deleted"
                             THEN "rmDelete" ELSE "rmEpisodes"]
  /\ lastOp' = [op |-> "concRemoveCheck", writer |-> w]
  /\ UNCHANGED <<series, episodes, conflicts>>
  /\ ConcFrame

\* prisma.episode.delete where id, the await after the check; it throws when
\* the row is gone.  filePresent: the file of the deleted row exists now.
ConcRemoveEpisode(w) ==
  /\ writers[w].at = "rmDelete"
  /\ episodes' = {e \in episodes : e.id # writers[w].found}
  /\ writers' = [writers EXCEPT ![w].at = "rmEpisodes", ![w].found = 0]
  /\ lastOp' = [op |-> "concRemoveEpisode", writer |-> w,
                deleted |-> \E e \in episodes : e.id = writers[w].found,
                filePresent |-> \E e \in episodes :
                                  /\ e.id = writers[w].found
                                  /\ isFileExistsOnDisk(fs, e.filePath)]
  /\ UNCHANGED <<series, conflicts>>
  /\ ConcFrame

\* The query for the series with no episode.
ConcSeriesSnapshot(w) ==
  /\ writers[w].at = "rmEpisodes" /\ writers[w].snapshot = <<>>
  /\ writers' = [writers EXCEPT ![w].at = "rmSeries",
                   ![w].snapshot = SortedIds({s.id : s \in EmptySeries(series, episodes)})]
  /\ lastOp' = [op |-> "concSnapshot", writer |-> w]
  /\ UNCHANGED <<series, episodes, conflicts>>
  /\ ConcFrame

\* prisma.tvSeries.delete on the next id of the snapshot; the loop catches
\* what it throws.
ConcRemoveSeries(w, cascade) ==
  /\ writers[w].at = "rmSeries" /\ writers[w].snapshot # <<>>
  /\ LET r == deleteSeries(series, episodes, Head(writers[w].snapshot), cascade)
     IN /\ series' = r.series
        /\ episodes' = r.episodes
        /\ lastOp' = [op |-> "concRemoveSeries", writer |-> w, outcome |-> r.outcome]
  /\ writers' = [writers EXCEPT ![w].snapshot = Tail(@)]
  /\ UNCHANGED conflicts
  /\ ConcFrame

\* The end of scanAll: deleteResolvedConflicts.
ConcFinishScan(w) ==
  /\ writers[w].at = "rmSeries" /\ writers[w].snapshot = <<>>
  /\ conflicts' = deleteResolvedConflicts(conflicts)
  /\ writers' = [writers EXCEPT ![w] = IdleWriter]
  /\ lastOp' = [op |-> "concFinish", writer |-> w]
  /\ UNCHANGED <<series, episodes>>
  /\ ConcFrame

\* One series folder is registered and holds E1; the catalog is empty and no
\* caller runs.
InitConc ==
  /\ fs = {E1}
  /\ mvAns = <<>>
  /\ tvAns \in {<<SeriesS>>, <<SeriesS, SeriesT>>}
  /\ envLeft = MaxConcEnvChanges
  /\ folders = {SeriesFolder}
  /\ movies = {}
  /\ series = {}
  /\ episodes = {}
  /\ conflicts = {}
  /\ pc = "idle"
  /\ cfg = NoCfg
  /\ dirIdx = 0
  /\ files = <<>>
  /\ unparseable = <<>>
  /\ missing = <<>>
  /\ loopIdx = 0
  /\ loopLen = 0
  /\ summary = NoSummary
  /\ progress = <<>>
  /\ lastDetails = NoSummary
  /\ stream = NoStream
  /\ lastOp = NoOp
  /\ quiet = FALSE
  /\ repeatRun = FALSE
  /\ moved = {}
  /\ deleted = NoDeleted
  /\ writers = [w \in Writers |-> IdleWriter]
  /\ ParserIdle
  /\ cacheSys = NoCache

NextConc ==
  \/ FileVanishes(E1)
  \/ FileAppears(E1)
  \/ SeriesAnswerChanges
  \/ \E w \in ScanWriters : ConcScanBegin(w)
  \/ \E w \in ScanWriters : ConcScanCheck(w)
  \/ \E c \in conflicts, sel \in TmdbSeriesIds : ConcResolveBegin(c, sel)
  \/ \E w \in Writers : ConcUpsertSeries(w)
  \/ \E w \in Writers : ConcFindEpisode(w)
  \/ \E w \in Writers : ConcWriteEpisode(w)
  \/ \E w \in ScanWriters : ConcEpisodeSnapshot(w)
  \/ \E w \in ScanWriters : ConcRemoveCheck(w)
  \/ \E w \in ScanWriters : ConcRemoveEpisode(w)
  \/ \E w \in ScanWriters : ConcSeriesSnapshot(w)
  \/ \E w \in ScanWriters, cascade \in BOOLEAN : ConcRemoveSeries(w, cascade)
  \/ \E w \in ScanWriters : ConcFinishScan(w)

SpecConc == InitConc /\ [][NextConc]_vars

\* ------------------------------------------------------------------------
\* The parser on episode names.  A name is put together from a series name,
\* an optional number in front of the marker, a season and episode marker in
\* one of its spellings (or none), an optional piece after it, and one
\* separator used throughout.
\* ------------------------------------------------------------------------

\* A number below 100 in decimal digits, with or without a leading zero.
Decimal(n, padded) ==
  IF n < 10 THEN (IF padded THEN <<"0">> ELSE <<>>) \o <<Digits[n + 1]>>
  ELSE <<Digits[(n \div 10) + 1], Digits[(n % 10) + 1]>>

\* The marker of season n, episode m in a spelling.
MarkerText(form, n, m, sep) ==
  IF form = "joined" THEN <<"S">> \o Decimal(n, TRUE) \o <<"E">> \o Decimal(m, TRUE)
  ELSE IF form = "spaced"
  THEN <<"S">> \o Decimal(n, TRUE) \o sep \o <<"E">> \o Decimal(m, TRUE)
  ELSE IF form = "cross" THEN Decimal(n, TRUE) \o <<"x">> \o Decimal(m, TRUE)
  ELSE IF form = "lower" THEN <<"s">> \o Decimal(n, TRUE) \o <<"e">> \o Decimal(m, TRUE)
  ELSE IF form = "short" THEN <<"S">> \o Decimal(n, FALSE) \o <<"E">> \o Decimal(m, FALSE)
  ELSE <<>>

EpisodeShapes ==
  [form : {"episode"},
   series : {<<"S", "h", "o", "w">>, <<"M", "r", ".", "X">>, <<"A", "r", "e", "a", " ",
      "5", "1">>, <<"S", "1">>},
   sep : {<<" ">>, <<".">>, <<"-">>, <<"_">>, <<" ", "-", " ">>},
   pre : {<<>>, <<"0", "1">>, <<"0", "1", "2">>, <<"0", "1", "v", "2">>},
   marker : {"none", "joined", "spaced", "cross", "lower", "short"},
   season : {1, 12},
   episode : {2, 10},
   post : {<<>>, <<"T", "i", "t", "l", "e">>, <<"0", "2">>, <<"7", "2", "0", "p">>,
      <<"E", "0", "5">>},
   trail : BOOLEAN]

EpisodeNameOf(sh) ==
  sh.series
  \o (IF sh.pre = <<>> THEN <<>> ELSE sh.sep \o sh.pre)
  \o (IF sh.marker = "none" THEN <<>>
      ELSE sh.sep \o MarkerText(sh.marker, sh.season, sh.episode, sh.sep))
  \o (IF sh.post = <<>> THEN <<>> ELSE sh.sep \o sh.post)
  \o (IF sh.trail THEN sh.sep ELSE <<>>)

serviceVars == <<envVars, folders, catalogVars, conflicts, scanVars, lastOp, quiet,
                 repeatRun, moved, deleted>>

\* The service at rest with an empty library.
EmptyLibrary ==
  /\ fs = {}
  /\ mvAns = <<>>
  /\ tvAns = <<>>
  /\ envLeft = 0
  /\ ServiceIdle
  /\ writers = <<>>
  /\ cacheSys = NoCache

InitEpisodeNames ==
  /\ EmptyLibrary
  /\ baseShape \in EpisodeShapes
  /\ baseName = EpisodeNameOf(baseShape)
  /\ parseResult = NotParsed

\* parserService.parseEpisode on the name.
ParseEpisodeCall ==
  /\ baseShape.form = "episode"
  /\ ~parseResult.called
  /\ parseResult' = parseEpisodeBase(baseName)
  /\ UNCHANGED <<serviceVars, writers, baseName, baseShape, cacheSys>>

NextEpisodeNames == ParseEpisodeCall

SpecEpisodeNames == InitEpisodeNames /\ [][NextEpisodeNames]_vars

\* ------------------------------------------------------------------------
\* The parser on movie names of the form 'Title (Year) [tag]...': a title,
\* white space, the year in parentheses and what follows it.
\* ------------------------------------------------------------------------

MovieShapes ==
  [form : {"movie"},
   title : {<<"A", "l", "i", "e", "n">>, <<"T", "h", "e", ".", "M", "a", "t", "r", "i",
      "x">>, <<"S", "e", "7", "e", "n">>, <<"A", "_", "I", ".">>, <<" ", "A", "l", "i",
      "e", "n">>, <<"2", "0", "0", "1">>, <<"M", "r", " ", " ", "X">>, <<"A", "l", "i",
      "e", "n", " ", "(", "1", "9", "7", "9", ")">>},
   gap : {<<>>, <<" ">>, <<" ", " ">>},
   year : {<<"1", "9", "7", "9">>, <<"2", "0", "4", "9">>, <<"0", "0", "0", "0">>},
   tags : {<<>>, <<" ", "[", "1", "0", "8", "0", "p", "]">>, <<"[", "1", "0", "8", "0",
      "p", "]", "[", "x", "2", "6", "4", "]">>, <<" ", "[", "B", "l", "u", "R", "a",
      "y", "]", " ", "[", "D", "T", "S", "]", " ", "x">>, <<" ", "(", "2", "0", "1",
      "0", ")", " ", "[", "1", "0", "8", "0", "p", "]">>}]

MovieNameOf(sh) == sh.title \o sh.gap \o <<"(">> \o sh.year \o <<")">> \o sh.tags

InitMovieNames ==
  /\ EmptyLibrary
  /\ baseShape \in MovieShapes
  /\ baseName = MovieNameOf(baseShape)
  /\ parseResult = NotParsed

\* parserService.parseMovie on the name.
ParseMovieCall ==
  /\ baseShape.form \in {"movie", "free"}
  /\ ~parseResult.called
  /\ parseResult' = parseMovieBase(baseName)
  /\ UNCHANGED <<serviceVars, writers, baseName, baseShape, cacheSys>>

NextMovieNames == ParseMovieCall

SpecMovieNames == InitMovieNames /\ [][NextMovieNames]_vars

\* ------------------------------------------------------------------------
\* parseMovie on every base name of up to MaxFreeNameLen characters over a
\* small alphabet (the empty name and names with a line break included),
\* and the branch scanMovieDirectory takes on its result.
\* ------------------------------------------------------------------------

MaxFreeNameLen == 4

FreeChars == {"a", "1", " ", ".", "(", ")", "[", "]", "\n"}

SingleLine(name) == \A i \in 1..Len(name) : name[i] # "\n"

InitMovieFree ==
  /\ EmptyLibrary
  /\ baseShape = [form |-> "free"]
  /\ baseName \in UNION {[1..n -> FreeChars] : n \in 0..MaxFreeNameLen}
  /\ parseResult = NotParsed

\* The head of the file loop of scanMovieDirectory: a null result records a
\* conflict without candidates and goes to the next file.
UnparseableMovieBranch ==
  /\ baseShape.form = "free" /\ parseResult.called /\ lastOp = NoOp
  /\ conflicts' = IF parseResult.parsed THEN conflicts
                  ELSE createScanningConflict(conflicts, "movie", baseName, baseName, <<>>)
  /\ lastOp' = [op |-> "movieBranch",
                kind |-> IF parseResult.parsed THEN "parsed" ELSE "unparsed"]
  /\ UNCHANGED <<envVars, folders, catalogVars, scanVars, quiet, repeatRun, sideVars>>

NextMovieFree ==
  \/ ParseMovieCall
  \/ UnparseableMovieBranch

SpecMovieFree == InitMovieFree /\ [][NextMovieFree]_vars

\* ------------------------------------------------------------------------
\* A route of a smart-cache router: GET answers go through cacheMiddleware,
\* POST, PUT, PATCH and DELETE through invalidateCache.  The data of the
\* route is a version number that every modification raises; the requests
\* interleave at their awaits.
\* ------------------------------------------------------------------------

\* How many modifying requests are made.
MaxCacheWrites == 2

Readers == {"getA", "getB"}

\* entry: the Redis entry of the route's key (<<>> when absent, else the
\* cached body).  invalidated: the newest version whose invalidation has
\* finished.  answer: the last answer a GET sent and where it came from.
InitCacheSys ==
  [on |-> TRUE, db |-> 0, entry |-> <<>>,
   readers |-> [r \in Readers |-> [at |-> "idle", body |-> 0]],
   modifier |-> [at |-> "idle", keys |-> 0],
   invalidated |-> 0,
   answer |-> [from |-> "none", body |-> 0, invalidated |-> 0]]

CacheFrame == UNCHANGED <<serviceVars, writers, parserVars>>

\* cacheMiddleware up to next(): redisClient.get; a hit is answered from the
\* entry, a miss goes on to the route handler.
CacheLookup(r) ==
  /\ cacheSys.on /\ cacheSys.readers[r].at = "idle"
  /\ cacheSys' =
       IF cacheSys.entry # <<>>
       THEN [cacheSys EXCEPT !.answer = [from |-> "cache", body |-> cacheSys.entry[1],
                                         invalidated |-> cacheSys.invalidated]]
       ELSE [cacheSys EXCEPT !.readers[r].at = "miss"]
  /\ CacheFrame

\* The route handler reads the data and builds the body.
CacheHandlerReads(r) ==
  /\ cacheSys.on /\ cacheSys.readers[r].at = "miss"
  /\ cacheSys' = [cacheSys EXCEPT !.readers[r] = [at |-> "built", body |-> cacheSys.db]]
  /\ CacheFrame

\* The overridden res.json: setex of the body under the key, then the answer.
CacheStoreAndSend(r) ==
  /\ cacheSys.on /\ cacheSys.readers[r].at = "built"
  /\ cacheSys' = [cacheSys EXCEPT
                    !.entry = <<cacheSys.readers[r].body>>,
                    !.readers[r] = [at |-> "idle", body |-> 0],
                    !.answer = [from |-> "handler", body |-> cacheSys.readers[r].body,
                                invalidated |-> cacheSys.invalidated]]
  /\ CacheFrame

\* The entry reaches its time-to-live.
CacheExpires ==
  /\ cacheSys.on /\ cacheSys.entry # <<>>
  /\ cacheSys' = [cacheSys EXCEPT !.entry = <<>>]
  /\ CacheFrame

\* A modifying request: its handler changes the data and answers.  After a
\* 2xx answer the overridden res.end starts the invalidation; after any
\* other answer (the handler changed nothing) it does not.
ModifyAndEnd(success) ==
  /\ cacheSys.on /\ cacheSys.modifier.at = "idle"
  /\ cacheSys.db < MaxCacheWrites
  /\ cacheSys' = IF success
                 THEN [cacheSys EXCEPT !.db = @ + 1, !.modifier.at = "scan"]
                 ELSE cacheSys
  /\ CacheFrame

\* clearAllCache: getAllCacheKeys scans for the keys 'cache:*'.
InvalidationScans ==
  /\ cacheSys.on /\ cacheSys.modifier.at = "scan"
  /\ cacheSys' = [cacheSys EXCEPT !.modifier = [at |-> "del",
                                                keys |-> Len(cacheSys.entry)]]
  /\ CacheFrame

\* clearAllCache: del of the keys found, if any; the invalidation is done.
InvalidationDeletes ==
  /\ cacheSys.on /\ cacheSys.modifier.at = "del"
  /\ cacheSys' = [cacheSys EXCEPT
                    !.entry = IF cacheSys.modifier.keys > 0 THEN <<>> ELSE @,
                    !.modifier = [at |-> "idle", keys |-> 0],
                    !.invalidated = cacheSys.db]
  /\ CacheFrame

InitCache ==
  /\ fs = {}
  /\ mvAns = <<>>
  /\ tvAns = <<>>
  /\ envLeft = 0
  /\ ServiceIdle
  /\ writers = <<>>
  /\ ParserIdle
  /\ cacheSys = InitCacheSys

NextCache ==
  \/ \E r \in Readers : CacheLookup(r)
  \/ \E r \in Readers : CacheHandlerReads(r)
  \/ \E r \in Readers : CacheStoreAndSend(r)
  \/ CacheExpires
  \/ \E success \in BOOLEAN : ModifyAndEnd(success)
  \/ InvalidationScans
  \/ InvalidationDeletes

SpecCache == InitCache /\ [][NextCache]_vars

\* ------------------------------------------------------------------------
\* A series folder whose files match no episode rule.
\* ------------------------------------------------------------------------

MaxGroupedEnvChanges == 2

UnparseableFiles == {U1, U2}

InitGrouped ==
  /\ fs \in SUBSET UnparseableFiles
  /\ mvAns = <<>>
  /\ tvAns \in SeriesAnswers
  /\ envLeft = MaxGroupedEnvChanges
  /\ InitService

NextGrouped ==
  \/ \E f \in UnparseableFiles : FileVanishes(f)
  \/ \E f \in UnparseableFiles : FileAppears(f)
  \/ SeriesAnswerChanges
  \/ ScanSeriesFile("none", FALSE)
  \/ \E searchFails \in BOOLEAN, storeFails \in BOOLEAN :
       GroupedConflict(searchFails, storeFails)
  \/ Service

SpecGrouped == InitGrouped /\ [][NextGrouped]_vars

\* ------------------------------------------------------------------------
\* The upserts on a catalog that already holds rows.  The stored rows carry
\* what the resolver answered when they were created; its answers for the
\* same identifier may have changed since.
\* ------------------------------------------------------------------------

StoredMovies ==
  [id : {1}, tmdbId : {MovieX}, title : {<<"alien">>, <<"alien", "1979">>},
   year : {1979}, releaseDate : {"1979-05-25", "1979-09-06"},
   filePath : {P1}, fileName : {"Alien (1979)"}]

StoredSeries == [id : {1}, tmdbId : {SeriesS}, title : {<<"show">>, <<"the", "show">>}]

StoredEpisodes ==
  [id : {1}, tmdbId : {101}, seasonNumber : {1}, episodeNumber : {1},
   filePath : {E1}, fileName : {"Show S01E01"}, seriesId : {1}]

\* What getMovieDetails and getTVDetails may answer now.
CurrentMovieDetails ==
  [id : TmdbMovieIds, title : {<<"alien">>, <<"alien", "1979">>}, year : {1979},
   release_date : {"1979-05-25", "1979-09-06"}]

CurrentSeriesDetails == [id : TmdbSeriesIds, name : {<<"show">>, <<"the", "show">>}]

InitUpsert ==
  /\ EmptyLibrary
  /\ ParserIdle

\* The catalog as earlier scans left it.
StoreRows ==
  /\ pc = "idle" /\ lastOp = NoOp
  /\ movies' \in {{m} : m \in StoredMovies}
  /\ series' \in {{r} : r \in StoredSeries}
  /\ episodes' \in {{e} : e \in StoredEpisodes}
  /\ lastOp' = [op |-> "stored"]
  /\ UNCHANGED <<envVars, folders, conflicts, scanVars, quiet, repeatRun, sideVars>>

\* prisma.movie.upsert of scanMovieDirectory and of resolveConflict.
UpsertMovieCall(d, f) ==
  /\ lastOp.op # "none"
  /\ movies' = UpsertMovie(movies, d, parseMovie(f))
  /\ lastOp' = [op |-> "upsertMovie", before |-> movies, key |-> d.id]
  /\ UNCHANGED <<envVars, folders, series, episodes, conflicts, scanVars, quiet,
                 repeatRun, sideVars>>

\* prisma.tvSeries.upsert, then the episode create-or-update, of
\* scanSeriesDirectory and of resolveConflict.
UpsertEpisodeCall(d, f) ==
  /\ lastOp.op # "none"
  /\ series' = UpsertSeries(series, d)
  /\ episodes' = UpsertEpisode(episodes, EpisodeDetails(d.id, 1, 1), parseEpisode(f),
                               SeriesRowOf(series', d).id)
  /\ lastOp' = [op |-> "upsertEpisode", before |-> episodes, seriesBefore |-> series,
                key |-> d.id]
  /\ UNCHANGED <<envVars, folders, movies, conflicts, scanVars, quiet, repeatRun,
                 sideVars>>

NextUpsert ==
  \/ StoreRows
  \/ \E d \in CurrentMovieDetails, f \in MovieFiles : UpsertMovieCall(d, f)
  \/ \E d \in CurrentSeriesDetails : UpsertEpisodeCall(d, E1)

SpecUpsert == InitUpsert /\ [][NextUpsert]_vars

\* ------------------------------------------------------------------------
\* Properties.
\* ------------------------------------------------------------------------

C2_SecondScanIsNoOp ==
  [][(repeatRun /\ quiet /\ quiet') =>
       /\ movies' = movies
       /\ series' = series
       /\ episodes' = episodes
       /\ {c.filePath : c \in conflicts'} \subseteq {c.filePath : c \in conflicts}]_vars

\* C3: at most one Movie row per external identifier, in every reachable
\* state.
C3_OneMoviePerTmdbId ==
  \A m1 \in movies, m2 \in movies : m1.tmdbId = m2.tmdbId => m1 = m2

\* C3 witness: a scanned file whose single match already had a row has
\* rebound that row (the catalog still holds one row, now at this file).
C3_UpdatedInPlace ==
  /\ lastOp.op = "movieFile"
  /\ lastOp.kind = "upserted"
  /\ lastOp.file = P3
  /\ \E m \in movies : m.tmdbId = MovieX /\ m.filePath = P3 /\ m.id = 1
  /\ \E c \in conflicts : c.filePath = P3
  /\ Cardinality(movies) = 1

\* C4: there is never more than one ScanningConflict row per filePath, and
\* right after the scan has recorded a conflict for a file the row of that
\* filePath is unresolved and carries the fileName and the candidates of
\* this call.
C4_ConflictUpsert ==
  /\ \A c1 \in conflicts, c2 \in conflicts : c1.filePath = c2.filePath => c1 = c2
  /\ (lastOp.op = "movieFile" /\ lastOp.kind = "conflict") =>
       \E c \in conflicts :
         /\ c.filePath = lastOp.file
         /\ ~c.resolved
         /\ c.fileName = parseMovie(lastOp.file).fileName
         /\ c.possibleMatches = searchMovie(parseMovie(lastOp.file).title, mvAns)

\* C4 witness: a conflict has been recorded again for a filePath whose row
\* had been resolved in between; the row is open again.
C4_RecordedTwice ==
  /\ lastOp.op = "movieFile"
  /\ lastOp.kind = "conflict"
  /\ lastOp.prior = "resolved"
  /\ \E c \in conflicts : c.filePath = lastOp.file /\ ~c.resolved /\ c.selectedId # 0

\* C5: whenever resolveConflict leaves a conflict resolved, the Movie row (or
\* the TvSeries row with an Episode row) of the selected identifier, bound
\* to the conflict's filePath, exists.
C5_ResolvedHasRecord ==
  lastOp.op = "resolveConflict" =>
    \A c \in conflicts :
      (c.id = lastOp.id /\ c.resolved) =>
        IF c.mediaType = "movie"
        THEN \E m \in movies : m.tmdbId = c.selectedId /\ m.filePath = c.filePath
        ELSE \E s \in series, e \in episodes :
               /\ s.tmdbId = c.selectedId
               /\ e.seriesId = s.id
               /\ e.filePath = c.filePath

\* C6: an exception while one file is processed (the store failing while a
\* conflict is recorded included) does not end the scan: after such a step
\* the scan is still running and no error event has been sent.
C6_FileErrorDoesNotAbort ==
  (lastOp.op \in {"movieFile", "seriesFile", "groupedConflict"} /\ lastOp.kind = "error")
    => (pc \notin {"done", "idle"} /\ stream.errors = 0)

\* C7: a folder that cannot be read does not end the scan: after the failed
\* readdir the scan is still running and no error event has been sent.
C7_ReadFailureDegrades ==
  lastOp.op = "readdirFailed" => (pc \notin {"done", "idle"} /\ stream.errors = 0)

\* C8: the percentages passed to the progress callback start at 0, never
\* decrease and stay within 0..100; when scanAll has returned normally the
\* last one is 100 and carries the removal summary.
C8_ProgressMonotone ==
  /\ progress # <<>> => progress[1] = 0
  /\ \A i \in 1..Len(progress) : progress[i] >= 0 /\ progress[i] <= 100
  /\ \A i \in 1..(Len(progress) - 1) : progress[i] <= progress[i + 1]
  /\ (pc = "done" /\ stream.errors = 0) =>
       /\ progress[Len(progress)] = 100
       /\ lastDetails = [removedMovies |-> summary.removedMovies,
                         removedEpisodes |-> summary.removedEpisodes,
                         removedSeries |-> summary.removedSeries]

\* C8 witness: a scan of two folders that removed two orphaned movies has
\* returned.
C8_TwoFoldersTwoOrphans ==
  /\ pc = "done"
  /\ stream.errors = 0
  /\ TotalPaths = 2
  /\ summary.removedMovies = 2
  /\ progress[Len(progress)] = 100

\* C9: a scan started through the streaming endpoint sends at most one
\* terminal event, ends the stream only with exactly one, has ended it when
\* the handler is done, flags it as an error exactly when the folder lookup
\* or scanAll threw, and every started stream is eventually ended.
C9_OneTerminalEvent ==
  /\ [](/\ stream.terminals <= 1
        /\ stream.ended => stream.terminals = 1
        /\ pc = "done" => stream.ended
        /\ stream.ended =>
             (stream.errors = 1 <=>
                (lastOp.op \in {"lookupFailed", "readdirFailed", "groupedConflict"})))
  /\ [](stream.open => <>stream.ended)

\* C9 witness: a scan that threw has ended its stream with one error event.
C9_ErrorStreamEnded ==
  /\ stream.ended
  /\ stream.terminals = 1
  /\ stream.errors = 1
  /\ lastOp.op = "readdirFailed"

C11_SingleMatchIndexed ==
  /\ [][(pc = "movieFiles" /\ files' = Tail(files) /\ lastOp'.kind # "error") =>
          LET p == parseMovie(Head(files))
              cands == searchMovie(p.title, mvAns)
          IN (p.parsed /\ ~isMovieInDatabase(movies, p, FALSE) /\ Len(cands) = 1) =>
               /\ Cardinality({m \in movies' : m.tmdbId = cands[1]}) = 1
               /\ \A m \in movies' : m.tmdbId = cands[1] => m.filePath = Head(files)
               /\ conflicts' = conflicts]_vars
  /\ [][(pc = "dirs" /\ pc' = "rmMovies") =>
          (Len(missing') = 0 <=> \A m \in movies : m.filePath \in fs)]_vars
  /\ [][(pc = "rmMovies" /\ pc' = "rmEpisodes") =>
          summary'.removedMovies = Len(missing)]_vars
  /\ []((pc = "done" /\ stream.errors = 0) =>
          /\ stream.terminals = 1
          /\ lastDetails.removedMovies = summary.removedMovies)

\* C11 witness: the scan has just indexed "Alien (1979)" in an empty catalog.
C11_AlienIndexed ==
  /\ lastOp.op = "movieFile"
  /\ lastOp.kind = "upserted"
  /\ lastOp.file = P1
  /\ lastOp.prior = "none"
  /\ movies = {[id |-> 1, tmdbId |-> MovieX, title |-> <<"alien">>, year |-> 1979,
                filePath |-> P1, fileName |-> "Alien (1979)",
                releaseDate |-> "1979-05-25"]}
  /\ conflicts = {}

\* C12: the scan step that processes, without an exception, a parseable
\* episode file that the existence check does not find in the catalog and
\* whose series search returns two or more candidates leaves exactly one
\* ScanningConflict row for the file's path, with mediaType 'series' and all
\* the candidates, and creates or changes no TvSeries and no Episode row.
C12_AmbiguousSeriesConflict ==
  [][(pc = "seriesFiles" /\ files' = Tail(files) /\ lastOp'.kind # "error") =>
       LET p == parseEpisode(Head(files))
           cands == searchTV(p.seriesName, tvAns)
       IN (p.parsed /\ ~isEpisodeInDatabase(episodes, series, p, FALSE) /\ Len(cands) > 1) =>
            /\ Cardinality({c \in conflicts' : c.filePath = Head(files)}) = 1
            /\ \A c \in conflicts' :
                 c.filePath = Head(files) =>
                   /\ c.mediaType = "series"
                   /\ c.possibleMatches = cands
                   /\ ~c.resolved
            /\ series' = series
            /\ episodes' = episodes]_vars

\* C13: when a trigger (the streaming endpoint or the scheduled scan) has run
\* to its end with nothing failing and the disk unchanged meanwhile, no Movie
\* row is left whose filePath does not exist on disk, whatever folders are
\* configured, none included.
C13_OrphanRemovedByAnyTrigger ==
  (pc = "done" /\ (lastOp.op = "scheduledSkipped" \/ (lastOp.op = "scanCompleted" /\ quiet)))
    => \A m \in movies : m.filePath \in fs

\* C14: when a scan has completed normally no ScanningConflict row with
\* resolved = true remains, and no step of a scan, the purge included,
\* deletes a row that is unresolved at that step.
C14_ResolvedPurged ==
  /\ []((pc = "done" /\ lastOp.op = "scanCompleted") => \A c \in conflicts : ~c.resolved)
  /\ [][pc # "idle" =>
          \A c \in conflicts : ~c.resolved => \E d \in conflicts' : d.id = c.id]_vars

\* C14 witness: a completed scan has purged a resolved conflict and kept an
\* unresolved one.
C14_OnePurgedOneKept ==
  /\ pc = "done"
  /\ lastOp.op = "scanCompleted"
  /\ lastOp.purged = 1
  /\ \E c \in conflicts : ~c.resolved

\* C15: whatever way two scans and resolveConflict interleave, no two Episode
\* rows have the same (tmdbId, seasonNumber, episodeNumber), and the seriesId
\* of every Episode row is the id of exactly one TvSeries row.
C15_EpisodeKeyUnique ==
  /\ \A e1 \in episodes, e2 \in episodes :
       (/\ e1.tmdbId = e2.tmdbId
        /\ e1.seasonNumber = e2.seasonNumber
        /\ e1.episodeNumber = e2.episodeNumber) => e1 = e2
  /\ \A e \in episodes : Cardinality({s \in series : s.id = e.seriesId}) = 1

\* Two callers found no episode and both went on to create it: the second
\* create was refused, one row exists.
C15_SecondCreateRefused ==
  /\ lastOp.op = "concWrite"
  /\ lastOp.outcome = "duplicateRefused"
  /\ Cardinality(episodes) = 1

\* C16: resolveConflict and deleteConflict, called with an id that no
\* ScanningConflict row has, end in 'Conflict not found': the handler answers
\* 404, and no conflict and no Movie, TvSeries or Episode row changes.
C16_UnknownConflictNotFound ==
  [][(/\ lastOp'.op \in {"resolveUnknown", "deleteUnknown"}
      /\ lastOp'.called /\ ~lastOp'.found)
     => /\ lastOp'.status = 404
        /\ lastOp'.status # HandlerStatus("store")
        /\ conflicts' = conflicts
        /\ movies' = movies /\ series' = series /\ episodes' = episodes]_vars

\* resolveConflict was called with an id that none of the existing conflicts
\* has, and the caller got 404.
C16_OtherConflictsExist ==
  /\ lastOp.op = "resolveUnknown"
  /\ lastOp.called /\ lastOp.status = 404
  /\ conflicts # {}
  /\ \A c \in conflicts : c.id # lastOp.id

\* C17: a name that matches a rule with a season and episode marker (S01E02
\* or 01x02) and also a rule for a bare number is parsed by the first rule of
\* the list that matches; that rule is a marker rule and the result is the
\* marked season and episode, never the bare number.
C17_MarkerBeforeBareNumber ==
  LET markerRules == {1, 2, 3, 4, 5, 8, 9}
      bareRules == {6, 7}
  IN (/\ parseResult.called /\ parseResult.parsed
      /\ baseShape.form = "episode"
      /\ parseResult.matching \cap markerRules # {}
      /\ parseResult.matching \cap bareRules # {})
     => /\ \A i \in parseResult.matching : parseResult.rule <= i
        /\ parseResult.rule \in markerRules
        /\ parseResult.seasonNumber = Num(baseShape.season)
        /\ parseResult.episodeNumber = Num(baseShape.episode)

\* A name with a bare number in front of the marker, which the seasonless
\* rule matches too, was parsed by a marker rule.
C17_BothKindsMatch ==
  /\ parseResult.called /\ parseResult.parsed
  /\ baseShape.form = "episode"
  /\ baseShape.pre = <<"0", "1">>
  /\ baseShape.marker = "joined"
  /\ 7 \in parseResult.matching
  /\ parseResult.rule \in {2, 3}

\* C18: the spaced spelling 'Series S0n E0m ...' and the joined spelling
\* 'Series.S0nE0m.Title' of season n, episode m both parse to (n, m), with
\* every separator.
C18_SpacedAndJoinedAgree ==
  (/\ parseResult.called
   /\ baseShape.form = "episode"
   /\ baseShape.pre = <<>>
   /\ baseShape.marker \in {"spaced", "joined"})
  => /\ parseResult.parsed
     /\ parseResult.seasonNumber = Num(baseShape.season)
     /\ parseResult.episodeNumber = Num(baseShape.episode)

\* The spaced spelling with dashes was parsed by the first rule.
C18_SpacedWithDash ==
  /\ parseResult.called /\ parseResult.parsed
  /\ baseShape.form = "episode"
  /\ baseShape.pre = <<>>
  /\ baseShape.marker = "spaced"
  /\ baseShape.sep = <<"-">>
  /\ parseResult.rule = 1

\* C19: for a name 'Title (Year) [tag]...' parseMovie returns a title
\* without dot and underscore, with single spaces and trimmed ends, and the
\* year is the four-digit number in parentheses: the first such number of
\* the name when the title itself holds one.
C19_TitleCleanYearRead ==
  (parseResult.called /\ baseShape.form = "movie")
  => /\ parseResult.parsed
     /\ \A k \in 1..Len(parseResult.title) : parseResult.title[k] \notin {".", "_"}
     /\ \A k \in 1..(Len(parseResult.title) - 1) :
          ~(parseResult.title[k] = " " /\ parseResult.title[k + 1] = " ")
     /\ parseResult.title # <<>>
          => parseResult.title[1] # " " /\ parseResult.title[Len(parseResult.title)] # " "
     /\ parseResult.year =
          IF \E k \in 1..Len(baseShape.title) : baseShape.title[k] = "("
          THEN Num(1979)
          ELSE Num(DigitsValue(baseShape.year, 0))

\* A title written with a dot came back with a space in its place, and the
\* year behind it was read.
C19_DottedTitleCleaned ==
  /\ parseResult.called /\ parseResult.parsed
  /\ baseShape.form = "movie"
  /\ baseShape.title = <<"T", "h", "e", ".", "M", "a", "t", "r", "i", "x">>
  /\ parseResult.title = <<"T", "h", "e", " ", "M", "a", "t", "r", "i", "x">>
  /\ parseResult.year = Num(2049)

\* C20: once the invalidation of a successful modification has finished, no
\* GET is answered from a cache entry built from the data as it was before
\* that modification.
C20_NoStaleAnswerAfterInvalidation ==
  (cacheSys.on /\ cacheSys.answer.from = "cache")
  => cacheSys.answer.body >= cacheSys.answer.invalidated

\* C21: however a cleanup pass interleaves with another scan, with
\* resolveConflict and with files coming and going, an Episode row is
\* deleted only when the file at its filePath is absent at the moment of the
\* delete.
C21_DeletedOnlyWhenAbsent ==
  (lastOp.op = "concRemoveEpisode" /\ lastOp.deleted) => ~lastOp.filePresent

\* C22: when a scan begins with a Movie row whose file has gone from the
\* filePath of the row and is on disk at another path below a scanned movie
\* folder, and nothing fails or changes while the scan runs, then the
\* completed scan leaves exactly one Movie row with that external id, bound
\* to the new path.
C22_MovedFileRebound ==
  (pc = "done" /\ lastOp.op = "scanCompleted" /\ quiet) =>
    \A mv \in moved :
      /\ Cardinality({m \in movies : m.tmdbId = mv[1]}) = 1
      /\ \A m \in movies : m.tmdbId = mv[1] => m.filePath = mv[2]

\* C23: an upsert that finds the row of its key changes only the file
\* binding of that row: the title, year and releaseDate of an existing Movie
\* row, the external id, numbers and series link of an existing Episode row,
\* and every existing TvSeries row, are as they were before the call.
C23_UpsertKeepsDescriptiveFields ==
  /\ lastOp.op = "upsertMovie" =>
       \A b \in lastOp.before : b.tmdbId = lastOp.key =>
         \E m \in movies : /\ m.id = b.id /\ m.tmdbId = b.tmdbId
                           /\ m.title = b.title /\ m.year = b.year
                           /\ m.releaseDate = b.releaseDate
  /\ lastOp.op = "upsertEpisode" =>
       /\ lastOp.seriesBefore \subseteq series
       /\ \A b \in lastOp.before :
            \E e \in episodes : /\ e.id = b.id /\ e.tmdbId = b.tmdbId
                                /\ e.seasonNumber = b.seasonNumber
                                /\ e.episodeNumber = b.episodeNumber
                                /\ e.seriesId = b.seriesId

C25_SummaryCountsDeletions ==
  (pc = "done" /\ lastOp.op = "scanCompleted") =>
    /\ lastDetails.removedMovies = deleted.movies
    /\ lastDetails.removedEpisodes = deleted.episodes
    /\ lastDetails.removedSeries = deleted.series

\* C26: the scan step on a file that matches no episode rule records no
\* conflict; the step that closes the group of the k unparseable files of a
\* directory leaves exactly one conflict row for the group, at the path of
\* its first file, unresolved and named "<folder> (k episodes)", removes the
\* whole group from the work list, and adds a row only when no row had that
\* path (a re-scan of the unchanged folder rewrites the row it left).
C26_OneGroupedConflict ==
  /\ [][(pc = "seriesFiles" /\ files' = Tail(files)
           /\ ~parseEpisode(Head(files)).parsed) => conflicts' = conflicts]_vars
  /\ [][(pc = "grouped" /\ unparseable' # unparseable) =>
          LET folder == DirName(Head(unparseable))
              group == SelectSeq(unparseable, LAMBDA f : DirName(f) = folder)
              had == {c \in conflicts : c.filePath = group[1]}
          IN /\ Cardinality({c \in conflicts' : c.filePath = group[1]}) = 1
             /\ \A c \in conflicts' :
                  c.filePath = group[1] =>
                    /\ c.fileName = GroupName(FolderBaseName(folder), Len(group))
                    /\ c.mediaType = "series"
                    /\ ~c.resolved
                    /\ \A h \in had : h.id = c.id
             /\ Cardinality(conflicts') =
                  Cardinality(conflicts) + (IF had = {} THEN 1 ELSE 0)
             /\ \A c \in conflicts' : c.filePath # group[1] => c \in conflicts
             /\ \A i \in 1..Len(unparseable') : DirName(unparseable'[i]) # folder]_vars

\* C26 witness: a scan that began right after a completed scan of the same
\* folder, with nothing changed, has rewritten the one row of the two
\* unparseable files of "Show".
C26_GroupOfTwoRefreshed ==
  /\ lastOp.op = "groupedConflict" /\ lastOp.kind = "conflict"
  /\ lastOp.file = U1 /\ lastOp.prior = "unresolved"
  /\ quiet /\ repeatRun
  /\ fs = {U1, U2}
  /\ Cardinality(conflicts) = 1
  /\ \E c \in conflicts : c.filePath = U1 /\ c.fileName = "Show (2 episodes)"

\* C27: when a scan has completed with nothing failing and the disk unchanged
\* meanwhile, every file on disk below a movie folder of the scan is the
\* filePath of a Movie row or of an unresolved ScanningConflict row.
C27_EveryFileAccountedFor ==
  (pc = "done" /\ lastOp.op = "scanCompleted" /\ quiet) =>
    \A i \in 1..Len(cfg.moviePaths) :
      \A k \in 1..Len(getMediaFiles(fs, cfg.moviePaths[i])) :
        LET f == getMediaFiles(fs, cfg.moviePaths[i])[k]
        IN \/ \E m \in movies : m.filePath = f
           \/ \E c \in conflicts : c.filePath = f /\ ~c.resolved

\* C28: when a scan has completed, no unresolved ScanningConflict row has the
\* filePath of a Movie row or of an Episode row.
C28_NoConflictForIndexedFile ==
  (pc = "done" /\ lastOp.op = "scanCompleted") =>
    \A c \in conflicts :
      ~c.resolved =>
        /\ \A m \in movies : m.filePath # c.filePath
        /\ \A e \in episodes : e.filePath # c.filePath

\* C29: every record parseEpisode returns has a seasonNumber and an
\* episodeNumber that are integers, not NaN, whichever rule matched; for a
\* name whose only number is the one the versioned rule or the seasonless
\* rule reads, that number is the episodeNumber.
C29_NumbersAreIntegers ==
  parseResult.parsed =>
    /\ ~parseResult.seasonNumber.nan
    /\ ~parseResult.episodeNumber.nan
    /\ (baseShape.form = "episode" /\ baseShape.marker = "none"
          /\ baseShape.pre # <<>> /\ parseResult.rule \in {6, 7}) =>
         parseResult.episodeNumber = parseInt(baseShape.pre)

\* C30: parseMovie returns a record for every base name that is not empty
\* and has no line break, the rule of the bare title being among the rules
\* that match it; scanMovieDirectory then does not take the branch of the
\* unparseable file and records no conflict there.
C30_SingleLineNameParses ==
  (baseShape.form = "free" /\ baseName # <<>> /\ SingleLine(baseName)) =>
    /\ parseResult.called => (parseResult.parsed /\ 5 \in parseResult.matching)
    /\ lastOp.op = "movieBranch" => (lastOp.kind = "parsed" /\ conflicts = {})

\* C30 witness: the name "a(" matched the bare-title rule alone and the scan
\* went past the branch of the unparseable file.
C30_OnlyFallbackMatched ==
  /\ baseName = <<"a", "(">>
  /\ parseResult.parsed /\ parseResult.matching = {5}
  /\ parseResult.title = <<"a", "(">>
  /\ lastOp.op = "movieBranch" /\ lastOp.kind = "parsed"

====
